---- MODULE Spec2Model ----
(***************************************************************************)
(* A model of the brand-attribution and sales-aggregation engine of the    *)
(* sales dashboard: utils/brand_analysis.py and utils/analysis.py.         *)
(*                                                                         *)
(* Strings are sequences of one-character strings.  A missing value (what  *)
(* pd.isna accepts) is the one-element sequence NaN, which is no string    *)
(* over the alphabet.                                                      *)
(***************************************************************************)
EXTENDS Integers, Sequences, FiniteSets, TLC

VARIABLES pc,             \* position of the current interaction
          product_name,   \* extract_brand_from_product: the description
          brand_mapping,  \* extract_brand_from_product: the alias mapping
          brand,          \* extract_brand_from_product: the returned brand
          df,             \* the dataset held in the session
          call,           \* the analysis function last called and its parameters
          result,         \* what that call returned
          page,           \* what the page last rendered shows
          brand_df        \* the brand table held in the session

vars == <<pc, product_name, brand_mapping, brand, df, call, result, page, brand_df>>

\* no dataset, no call yet, no result (a function that returns None)
NoData == [columns |-> {}, rows |-> <<>>]
NoCall == [fn |-> "none"]
None == [none |-> TRUE]
\* a function's return value that is not None
Some(x) == [none |-> FALSE, value |-> x]

----------------------------------------------------------------------------
(* Bounds of the classifier's inputs. *)
MaxDescLen == 5
MaxPairs == 2

Alphabet == {"[", "]", " ", "a", "B"}
AliasPool == {<<"a">>, <<"A", "b">>}
BrandNames == <<"X", "Y", "Z", "W">>

NaN == <<"NaN">>
\* the sentinel brand of lines 22 and 64 (the Korean word gita, "other")
GITA == "gita"

----------------------------------------------------------------------------
(* String helpers: str.upper, str.strip, the `in` operator, re.            *)

RECURSIVE StringsUpTo(_)
StringsUpTo(n) ==
    IF n = 0 THEN {<<>>}
    ELSE LET shorter == StringsUpTo(n - 1)
         IN  shorter \cup {Append(s, c) : s \in {t \in shorter : Len(t) = n - 1},
                                          c \in Alphabet}

\* str.upper of one character; "Idot" stands for the capital I with a dot
\* above (U+0130), which str.upper leaves as it is
upper_char(c) ==
    CASE c = "a" -> "A"
      [] c = "b" -> "B"
      [] c = "i" -> "I"
      [] OTHER -> c

\* the form under which re.IGNORECASE compares a character: its lower case,
\* the dotted capital I taken as "i"
fold_char(c) ==
    CASE c = "A" -> "a"
      [] c = "B" -> "b"
      [] c = "I" -> "i"
      [] c = "Idot" -> "i"
      [] OTHER -> c

fold(s) == [i \in 1..Len(s) |-> fold_char(s[i])]

upper(s) == [i \in 1..Len(s) |-> upper_char(s[i])]

is_space(c) == c = " "

strip(s) ==
    LET keep == {i \in 1..Len(s) : ~is_space(s[i])}
    IN  IF keep = {} THEN <<>>
        ELSE LET lo == CHOOSE i \in keep : \A j \in keep : i <= j
                 hi == CHOOSE i \in keep : \A j \in keep : i >= j
             IN  SubSeq(s, lo, hi)

\* needle in hay
contains(hay, needle) ==
    \E i \in 0..(Len(hay) - Len(needle)) :
        SubSeq(hay, i + 1, i + Len(needle)) = needle

\* \w of a regular expression
is_word(c) == c \in {"a", "A", "b", "B", "i", "I", "Idot"}

\* \b between position p and p + 1 of s (0 <= p <= Len(s))
word_boundary(s, p) ==
    LET before == p >= 1 /\ is_word(s[p])
        after == p < Len(s) /\ is_word(s[p + 1])
    IN  before # after

\* re.search(rf'\b{re.escape(variant)}\b', s, re.IGNORECASE)
word_search(variant, s) ==
    \E i \in 0..(Len(s) - Len(variant)) :
        /\ fold(SubSeq(s, i + 1, i + Len(variant))) = fold(variant)
        /\ word_boundary(s, i)
        /\ word_boundary(s, i + Len(variant))

NoMatch == <<"NoMatch">>
\* step 1 fell through: no brand name
NoBrand == "NoBrand"

\* re.match(r'^\[([^\]]+)\]', s): group(1), or NoMatch
bracket_match(s) ==
    LET closing == {j \in 2..Len(s) : s[j] = "]"}
    IN  IF Len(s) = 0 \/ s[1] # "[" \/ closing = {} THEN NoMatch
        ELSE LET j == CHOOSE k \in closing : \A l \in closing : k <= l
             IN  IF j = 2 THEN NoMatch ELSE SubSeq(s, 2, j - 1)

----------------------------------------------------------------------------
(* extract_brand_from_product                                              *)

\* the (variant, main_brand) pairs in the mapping's insertion order
RECURSIVE all_variants_with_brand(_)
all_variants_with_brand(mapping) ==
    IF mapping = <<>> THEN <<>>
    ELSE LET e == Head(mapping)
         IN  [i \in 1..Len(e.variants) |->
                 [variant |-> e.variants[i], main_brand |-> e.brand]]
             \o all_variants_with_brand(Tail(mapping))

\* a sort by length that puts the later of two pairs of one length first
RECURSIVE sort_by_len_desc_ties_reversed(_, _)
sort_by_len_desc_ties_reversed(pairs, n) ==
    LET here == SelectSeq(pairs, LAMBDA p : Len(p.variant) = n)
        reversed == [i \in 1..Len(here) |-> here[Len(here) + 1 - i]]
    IN  IF n = 0 THEN reversed
        ELSE reversed \o sort_by_len_desc_ties_reversed(pairs, n - 1)

\* list.sort(key=lambda x: len(x[0]), reverse=True): stable, longest first
RECURSIVE sort_by_len_desc(_, _)
sort_by_len_desc(pairs, n) ==
    LET here == SelectSeq(pairs, LAMBDA p : Len(p.variant) = n)
    IN  IF n = 0 THEN here ELSE here \o sort_by_len_desc(pairs, n - 1)

max_len(pairs) ==
    IF pairs = <<>> THEN 0
    ELSE LET lens == {Len(pairs[i].variant) : i \in 1..Len(pairs)}
         IN  CHOOSE n \in lens : \A m \in lens : n >= m

\* the pairs left in insertion order (the sort of line 47 dropped)
sorted_variants_unsorted(mapping) == all_variants_with_brand(mapping)

sorted_variants(mapping) ==
    LET pairs == all_variants_with_brand(mapping)
    IN  sort_by_len_desc(pairs, max_len(pairs))

\* the scan's condition with the substring test of line 53 dropped
variant_matches_word_only(variant, name) == word_search(variant, name)

\* the condition under which the scan returns at one variant
variant_matches(variant, name) ==
    \/ contains(upper(name), upper(variant))
    \/ word_search(variant, name)

\* step 1: the brand of the first variant equal to the bracketed token
bracket_brand(name, mapping) ==
    LET token == bracket_match(name)
        pairs == all_variants_with_brand(mapping)
        hits == {i \in 1..Len(pairs) :
                    upper(pairs[i].variant) = upper(strip(token))}
    IN  IF token = NoMatch \/ hits = {} THEN NoBrand
        ELSE pairs[CHOOSE i \in hits : \A j \in hits : i <= j].main_brand

\* step 2: the brand of the first matching variant, longest first
scan_brand(name, mapping) ==
    LET pairs == sorted_variants(mapping)
        hits == {i \in 1..Len(pairs) : variant_matches(pairs[i].variant, name)}
    IN  IF hits = {} THEN GITA
        ELSE pairs[CHOOSE i \in hits : \A j \in hits : i <= j].main_brand

\* the scan alone (step 1 of lines 27-37 dropped)
extract_brand_scan_only(name, mapping) ==
    IF name = NaN THEN GITA ELSE scan_brand(strip(name), mapping)

\* without the guard of lines 21-22: str(nan) is "nan"
extract_brand_no_isna(name, mapping) ==
    LET stripped == IF name = NaN THEN <<"n", "a", "n">> ELSE strip(name)
        first == bracket_brand(stripped, mapping)
    IN  IF first # NoBrand THEN first ELSE scan_brand(stripped, mapping)

extract_brand_from_product(name, mapping) ==
    IF name = NaN THEN GITA
    ELSE LET stripped == strip(name)
             first == bracket_brand(stripped, mapping)
         IN  IF first # NoBrand THEN first
             ELSE scan_brand(stripped, mapping)

----------------------------------------------------------------------------
(* The classifier's inputs. *)

Descriptions == StringsUpTo(MaxDescLen) \cup {NaN}

\* alias lists of k variants, no variant twice (line 123 removes duplicates)
RECURSIVE VariantLists(_)
VariantLists(k) ==
    IF k = 0 THEN {<<>>}
    ELSE {Append(l, v) : <<l, v>> \in
             {lv \in VariantLists(k - 1) \X AliasPool :
                 \A i \in 1..Len(lv[1]) : lv[1][i] # lv[2]}}

\* mappings holding n (variant, brand) pairs in all, the i-th key BrandNames[i]
RECURSIVE MappingsFrom(_, _)
MappingsFrom(i, n) ==
    IF n = 0 \/ i > Len(BrandNames) THEN {<<>>}
    ELSE {<<>>} \cup
         UNION {{<<[brand |-> BrandNames[i], variants |-> l]>> \o rest :
                    l \in VariantLists(k), rest \in MappingsFrom(i + 1, n - k)} :
                k \in 1..n}

Mappings == MappingsFrom(1, MaxPairs)

InitClassify ==
    /\ pc = "classify"
    /\ product_name \in Descriptions
    /\ brand_mapping = <<>>
    /\ brand = "none"
    /\ brand_df = NoData
    /\ df = NoData
    /\ call = NoCall
    /\ result = None
    /\ page = "none"

\* one call extract_brand_from_product(product_name, mapping)
ExtractBrand ==
    /\ pc = "classify"
    /\ \E mapping \in Mappings :
          /\ brand_mapping' = mapping
          /\ brand' = extract_brand_from_product(product_name, mapping)
    /\ pc' = "classified"
    /\ UNCHANGED <<product_name, df, call, result, page, brand_df>>

NextClassify == ExtractBrand

SpecClassify == InitClassify /\ [][NextClassify]_vars

----------------------------------------------------------------------------
(* Claims about the classifier, stated over the raw description and the    *)
(* mapping, without the classifier's own helpers.                          *)

\* the (variant, main_brand) pairs of the mapping, as a set
PairSet ==
    {[variant |-> brand_mapping[i].variants[k], main_brand |-> brand_mapping[i].brand] :
        <<i, k>> \in {ik \in (1..Len(brand_mapping)) \X (1..MaxPairs + 1) :
                         ik[2] <= Len(brand_mapping[ik[1]].variants)}}

SameLetter(c, d) == c = d \/ {c, d} = {"a", "A"} \/ {c, d} = {"b", "B"}

\* v occurs in d, case ignored
Occurs(v, d) ==
    \E i \in 1..(Len(d) - Len(v) + 1) :
        \A k \in 1..Len(v) : SameLetter(d[i + k - 1], v[k])

\* the pairs whose variant occurs in the description
Matching == {p \in PairSet : Occurs(p.variant, product_name)}

\* d starts with "[T]" and T, trimmed, is v with case ignored
TokenEquals(d, v) ==
    /\ Len(d) >= 3
    /\ d[1] = "["
    /\ \E j \in 3..Len(d) :
          /\ d[j] = "]"
          /\ \A k \in 2..(j - 1) : d[k] # "]"
          /\ \E lo \in 2..(j - 1) :
                LET hi == lo + Len(v) - 1
                IN  /\ hi <= j - 1
                    /\ \A k \in 2..(j - 1) :
                          IF k < lo \/ k > hi THEN d[k] = " "
                          ELSE SameLetter(d[k], v[k - lo + 1])

\* the positions in the mapping of the brands with a variant equal to the token
TokenOwners ==
    {i \in 1..Len(brand_mapping) :
        \E k \in 1..Len(brand_mapping[i].variants) :
            TokenEquals(product_name, brand_mapping[i].variants[k])}

\* C1: when the fast path does not return and some alias occurs in the
\* description, the returned brand has an alias that occurs in it and is at
\* least as long as every alias that occurs in it.
C1_LongestAliasWins ==
    (/\ pc = "classified"
     /\ product_name # NaN
     /\ bracket_brand(strip(product_name), brand_mapping) = NoBrand
     /\ Matching # {})
    => \E p \in Matching :
          /\ p.main_brand = brand
          /\ \A q \in Matching : Len(q.variant) <= Len(p.variant)

\* C1's case: a short alias of the first brand and a longer alias of a later
\* brand both occur, and the later brand is returned.
C1_Witness ==
    /\ pc = "classified"
    /\ product_name # NaN
    /\ bracket_brand(strip(product_name), brand_mapping) = NoBrand
    /\ Len(brand_mapping) >= 2
    /\ brand = brand_mapping[2].brand
    /\ \E p, q \in Matching :
          /\ p.main_brand = brand_mapping[1].brand
          /\ q.main_brand = brand_mapping[2].brand
          /\ Len(p.variant) < Len(q.variant)
          /\ Occurs(p.variant, q.variant)

\* C2 as stated: whenever the bracketed token equals an alias of a brand,
\* that brand is returned.
C2_EveryTokenOwnerReturned ==
    pc = "classified" =>
        \A i \in TokenOwners : brand = brand_mapping[i].brand

\* C2 as amended: when the bracketed token equals an alias of some brand, the
\* first such brand in the mapping's order is returned, whatever longer
\* alias occurs in the description.
C2_BracketFastPath ==
    (pc = "classified" /\ TokenOwners # {}) =>
        brand = brand_mapping[CHOOSE i \in TokenOwners :
                                 \A j \in TokenOwners : i <= j].brand

\* C2's case: the token's brand is returned although the longest alias that
\* occurs in the description, after the bracket, is another brand's only.
C2_Witness ==
    /\ pc = "classified"
    /\ TokenOwners # {}
    /\ \E q \in Matching :
          /\ q.main_brand # brand
          /\ \A p \in Matching :
                p.main_brand = brand => Len(p.variant) < Len(q.variant)
          /\ \E j \in 3..Len(product_name) :
                /\ product_name[j] = "]"
                /\ Occurs(q.variant, SubSeq(product_name, j + 1, Len(product_name)))
    /\ scan_brand(strip(product_name), brand_mapping) # brand

\* C3: a missing description gives the sentinel for every mapping, and so
\* does a description in which no alias of the mapping occurs; the result is
\* always the sentinel or a key of the mapping.
C3_Sentinel ==
    pc = "classified" =>
        /\ product_name = NaN => brand = GITA
        /\ (product_name # NaN /\ Matching = {}) => brand = GITA
        /\ brand \in {GITA} \cup {brand_mapping[i].brand : i \in 1..Len(brand_mapping)}

\* C3's cases: a missing description under a non-empty mapping; a description
\* with letters in which no alias of a non-empty mapping occurs; the empty
\* mapping.
C3_WitnessNaN ==
    pc = "classified" /\ product_name = NaN /\ brand_mapping # <<>> /\ brand = GITA

C3_Witness ==
    /\ pc = "classified"
    /\ product_name # NaN
    /\ Len(brand_mapping) >= 2
    /\ \E i \in 1..Len(product_name) : product_name[i] \in {"a", "B"}
    /\ bracket_match(strip(product_name)) # NoMatch
    /\ Matching = {}
    /\ brand = GITA

C3_WitnessEmptyMapping ==
    pc = "classified" /\ product_name # NaN /\ brand_mapping = <<>> /\ brand = GITA

----------------------------------------------------------------------------
(* Floating-point values: a number, NaN, inf or -inf.  Amounts are whole   *)
(* won.  A percentage is kept in hundredths of a percent, the unit that    *)
(* round(2) rounds to, and is computed exactly where the code computes it  *)
(* in binary floating point.                                               *)

Num(v) == [k |-> "num", v |-> v]
NAN == [k |-> "nan", v |-> 0]
PINF == [k |-> "inf", v |-> 0]
NINF == [k |-> "ninf", v |-> 0]

f_add(x, y) ==
    CASE x.k = "nan" \/ y.k = "nan" -> NAN
      [] x.k = "num" /\ y.k = "num" -> Num(x.v + y.v)
      [] x.k = "num" -> y
      [] y.k = "num" -> x
      [] x.k = y.k -> x
      [] OTHER -> NAN

\* Series.sum(), GroupBy 'sum': NaN is skipped, nothing sums to 0
RECURSIVE series_sum(_)
series_sum(xs) ==
    IF xs = <<>> THEN Num(0)
    ELSE IF Head(xs).k = "nan" THEN series_sum(Tail(xs))
    ELSE f_add(Head(xs), series_sum(Tail(xs)))

\* GroupBy 'count': the cells that are not NaN
series_count(xs) == Len(SelectSeq(xs, LAMBDA x : x.k # "nan"))

\* Series.cumsum(): a NaN cell stays NaN and adds nothing to the running sum
RECURSIVE cumsum_from(_, _)
cumsum_from(xs, acc) ==
    IF xs = <<>> THEN <<>>
    ELSE IF Head(xs).k = "nan" THEN <<NAN>> \o cumsum_from(Tail(xs), acc)
    ELSE LET a == f_add(acc, Head(xs))
         IN  <<a>> \o cumsum_from(Tail(xs), a)

cumsum(xs) == cumsum_from(xs, Num(0))

\* p / q rounded to the nearest integer, a tie to the even one (numpy.round)
round_half_even(p, q) ==
    LET pp == IF q < 0 THEN -p ELSE p
        qq == IF q < 0 THEN -q ELSE q
        f == pp \div qq
        r == pp - f * qq
    IN  IF 2 * r < qq THEN f
        ELSE IF 2 * r > qq THEN f + 1
        ELSE IF f % 2 = 0 THEN f ELSE f + 1

\* (x / total).round(2): the factor 100 forgotten
pct_unscaled(x, total) ==
    IF total.v = 0
    THEN IF x.v > 0 THEN PINF ELSE IF x.v < 0 THEN NINF ELSE NAN
    ELSE Num(round_half_even(x.v * 100, total.v))

\* (x / total * 100).round(2), in hundredths of a percent
pct(x, total) ==
    IF total.v = 0
    THEN IF x.v > 0 THEN PINF ELSE IF x.v < 0 THEN NINF ELSE NAN
    ELSE Num(round_half_even(x.v * 10000, total.v))

----------------------------------------------------------------------------
(* The dataset: columns, and rows that map each column to a cell.  The     *)
(* columns are named in English: "client" is the client-name column,       *)
(* "product" the product description, "amount" the amount, "date" the      *)
(* date, "brand" the brand column that add_brand_column adds.              *)

cells(d, col) == [i \in 1..Len(d.rows) |-> d.rows[i][col]]

\* add_brand_column, the product column found
\* the brand column added only where the table has none yet
add_brand_column_once(sales_df, mapping, product_col) ==
    [columns |-> sales_df.columns \cup {"brand"},
     rows |-> [i \in 1..Len(sales_df.rows) |->
                 [c \in sales_df.columns \cup {"brand"} |->
                     IF c = "brand" /\ "brand" \notin sales_df.columns
                     THEN IF product_col \in sales_df.columns
                          THEN extract_brand_from_product(
                                   sales_df.rows[i][product_col], mapping)
                          ELSE GITA
                     ELSE sales_df.rows[i][c]]]]

add_brand_column(sales_df, mapping, product_col) ==
    [columns |-> sales_df.columns \cup {"brand"},
     rows |-> [i \in 1..Len(sales_df.rows) |->
                 [c \in sales_df.columns \cup {"brand"} |->
                     IF c = "brand"
                     THEN IF product_col \in sales_df.columns
                          THEN extract_brand_from_product(
                                   sales_df.rows[i][product_col], mapping)
                          ELSE GITA
                     ELSE sales_df.rows[i][c]]]]

----------------------------------------------------------------------------
(* Aggregation Engine: analyze_sales_by_client, analyze_sales_by_product,  *)
(* analyze_sales_by_brand.  The mean, max and min columns are left out.    *)

\* df.groupby(key_col)[amount_col].agg(sum, count): one row per key
group_agg(d, key_col, amount_col) ==
    {LET amounts == cells([d EXCEPT !.rows =
                             SelectSeq(d.rows, LAMBDA r : r[key_col] = key)],
                          amount_col)
     IN  [key |-> key, total |-> series_sum(amounts), count |-> series_count(amounts)] :
     key \in {d.rows[i][key_col] : i \in 1..Len(d.rows)}}

\* the total over the groups
RECURSIVE total_sales_of(_)
total_sales_of(groups) ==
    IF groups = {} THEN Num(0)
    ELSE LET g == CHOOSE x \in groups : TRUE
         IN  f_add(g.total, total_sales_of(groups \ {g}))

\* the share column, against the total of the rows given
with_share(groups) ==
    LET total_sales == total_sales_of(groups)
    IN  {[key |-> g.key, total |-> g.total, count |-> g.count,
          share |-> pct(g.total, total_sales)] : g \in groups}

\* the sort in ascending order of the total
RECURSIVE sort_values_asc(_)
sort_values_asc(rowset) ==
    IF rowset = {} THEN {<<>>}
    ELSE UNION {{<<g>> \o rest : rest \in sort_values_asc(rowset \ {g})} :
                g \in {x \in rowset : \A y \in rowset : x.total.v <= y.total.v}}

\* sort_values(total, ascending=False): the sort is not stable, ties may
\* come out in any order
RECURSIVE sort_values_desc(_)
sort_values_desc(rowset) ==
    IF rowset = {} THEN {<<>>}
    ELSE UNION {{<<g>> \o rest : rest \in sort_values_desc(rowset \ {g})} :
                g \in {x \in rowset : \A y \in rowset : x.total.v >= y.total.v}}

\* the cumulative-share column, cumsum().round(2) down the rows
with_cumulative(s) ==
    LET c == cumsum([i \in 1..Len(s) |-> s[i].share])
    IN  [i \in 1..Len(s) |->
            [key |-> s[i].key, total |-> s[i].total, count |-> s[i].count,
             share |-> s[i].share, cum |-> c[i]]]

\* DataFrame.head(n)
head(s, n) == SubSeq(s, 1, IF n < Len(s) THEN n ELSE Len(s))

\* analyze_sales_by_client with the share taken over the rows kept
analyze_sales_by_client_head_first(d, client_col, amount_col, top_n) ==
    IF client_col \notin d.columns \/ amount_col \notin d.columns THEN {None}
    ELSE UNION {{Some(with_cumulative(t)) :
                   t \in sort_values_desc(with_share(
                            {s[i] : i \in 1..Len(head(s, top_n))}))} :
                s \in sort_values_desc(group_agg(d, client_col, amount_col))}

\* the results analyze_sales_by_client may return
analyze_sales_by_client(d, client_col, amount_col, top_n) ==
    IF client_col \notin d.columns \/ amount_col \notin d.columns THEN {None}
    ELSE {Some(head(with_cumulative(s), top_n)) :
             s \in sort_values_desc(with_share(group_agg(d, client_col, amount_col)))}

analyze_sales_by_product(d, product_col, amount_col, top_n) ==
    IF product_col \notin d.columns \/ amount_col \notin d.columns THEN {None}
    ELSE {Some(head(s, top_n)) :
             s \in sort_values_desc(with_share(group_agg(d, product_col, amount_col)))}

analyze_sales_by_brand(d, brand_col, amount_col, top_n) ==
    IF brand_col \notin d.columns \/ amount_col \notin d.columns THEN {None}
    ELSE {Some(head(with_cumulative(s), top_n)) :
             s \in sort_values_desc(with_share(group_agg(d, brand_col, amount_col)))}

----------------------------------------------------------------------------
(* Dates.  A date cell is a timestamp or NaT; the model keeps the month of *)
(* a timestamp, counted from a January, which decides its month, quarter   *)
(* and year.  Grouping by day or week is not modelled.                     *)

Ts(m) == [k |-> "ts", m |-> m]
NaT == [k |-> "nat", m |-> 0]

\* the calendar period of month m under pd.Grouper(freq=period)
period_of(m, period) ==
    CASE period = "M" -> m
      [] period = "Q" -> m \div 3
      [] period = "Y" -> m \div 12

\* the rows with a timestamp in date_col
dated_rows(d, date_col) == SelectSeq(d.rows, LAMBDA r : r[date_col].k = "ts")

\* GroupBy 'mean': the sum over the count, NaN for no cell
series_mean(xs) ==
    IF series_count(xs) = 0 THEN NAN
    ELSE [k |-> "quot", n |-> series_sum(xs).v, d |-> series_count(xs)]

\* the amount cells of the rows of period p
period_cells(d, date_col, amount_col, period, p) ==
    LET rows == SelectSeq(d.rows, LAMBDA r :
                    r[date_col].k = "ts" /\ period_of(r[date_col].m, period) = p)
    IN  [i \in 1..Len(rows) |-> rows[i][amount_col]]

\* only the periods that hold a dated row, in ascending order
RECURSIVE ascending(_)
ascending(ps) ==
    IF ps = {} THEN <<>>
    ELSE LET lo == CHOOSE p \in ps : \A q \in ps : p <= q
         IN  <<lo>> \o ascending(ps \ {lo})

period_bins_observed(d, date_col, period) ==
    LET rows == dated_rows(d, date_col)
    IN  ascending({period_of(rows[i][date_col].m, period) : i \in 1..Len(rows)})

\* the bins of groupby(pd.Grouper(key=date_col, freq=period)): every period
\* from the first dated row's to the last dated row's
period_bins(d, date_col, period) ==
    LET rows == dated_rows(d, date_col)
        ps == {period_of(rows[i][date_col].m, period) : i \in 1..Len(rows)}
    IN  IF ps = {} THEN <<>>
        ELSE LET lo == CHOOSE p \in ps : \A q \in ps : p <= q
                 hi == CHOOSE p \in ps : \A q \in ps : p >= q
             IN  [i \in 1..(hi - lo + 1) |-> lo + i - 1]

analyze_sales_by_period(d, date_col, amount_col, period) ==
    IF date_col \notin d.columns \/ amount_col \notin d.columns THEN None
    ELSE LET bins == period_bins(d, date_col, period)
         IN  Some([i \in 1..Len(bins) |->
                     LET xs == period_cells(d, date_col, amount_col, period, bins[i])
                     IN  [period |-> bins[i], sales |-> series_sum(xs),
                          count |-> series_count(xs), mean |-> series_mean(xs)]])

----------------------------------------------------------------------------
(* Growth & Forecast Engine: calculate_growth_rate, predict_future_sales.  *)

\* Series.shift(k)
shift(xs, k) == [i \in 1..Len(xs) |-> IF i - k >= 1 THEN xs[i - k] ELSE NAN]

\* ((cur - prev) / cur * 100).round(2): divided by the wrong period
growth_pct_of_current(cur, prev) ==
    IF cur.k = "nan" \/ prev.k = "nan" THEN NAN
    ELSE IF cur.v = 0
    THEN IF cur.v - prev.v > 0 THEN PINF
         ELSE IF cur.v - prev.v < 0 THEN NINF ELSE NAN
    ELSE Num(round_half_even((cur.v - prev.v) * 10000, cur.v))

\* ((cur - prev) / prev * 100).round(2), in hundredths of a percent
growth_pct(cur, prev) ==
    IF cur.k = "nan" \/ prev.k = "nan" THEN NAN
    ELSE IF prev.v = 0
    THEN IF cur.v - prev.v > 0 THEN PINF
         ELSE IF cur.v - prev.v < 0 THEN NINF ELSE NAN
    ELSE Num(round_half_even((cur.v - prev.v) * 10000, prev.v))

\* the sums of the bins
period_sums(d, date_col, amount_col, period) ==
    LET bins == period_bins(d, date_col, period)
    IN  [i \in 1..Len(bins) |->
            series_sum(period_cells(d, date_col, amount_col, period, bins[i]))]

calculate_growth_rate(d, date_col, amount_col, period) ==
    IF date_col \notin d.columns \/ amount_col \notin d.columns THEN None
    ELSE LET bins == period_bins(d, date_col, period)
             sums == period_sums(d, date_col, amount_col, period)
             prev == shift(sums, 1)
             prev_year == shift(sums, 12)
         IN  Some([i \in 1..Len(bins) |->
                     IF period = "M"
                     THEN [period |-> bins[i], sales |-> sums[i], prev |-> prev[i],
                           growth |-> growth_pct(sums[i], prev[i]),
                           prev_year |-> prev_year[i],
                           yoy |-> growth_pct(sums[i], prev_year[i])]
                     ELSE [period |-> bins[i], sales |-> sums[i], prev |-> prev[i],
                           growth |-> growth_pct(sums[i], prev[i])]])

\* the sum of f[i] for i in 1..n
RECURSIVE sum_to(_, _)
sum_to(f, n) == IF n = 0 THEN 0 ELSE f[n] + sum_to(f, n - 1)

\* Series.tail(k).mean()
tail_mean(ys, k) ==
    LET from == IF Len(ys) > k THEN Len(ys) - k + 1 ELSE 1
    IN  series_mean(SubSeq(ys, from, Len(ys)))

\* coefficients[1], the intercept of the fitted line, taken for the slope
polyfit_intercept(ys) ==
    LET len == Len(ys)
        x == [i \in 1..len |-> i - 1]
        sx == sum_to(x, len)
        sxx == sum_to([i \in 1..len |-> x[i] * x[i]], len)
        sy == sum_to([i \in 1..len |-> ys[i].v], len)
        sxy == sum_to([i \in 1..len |-> x[i] * ys[i].v], len)
    IN  [n |-> sy * sxx - sx * sxy, d |-> len * sxx - sx * sx]

\* np.polyfit(x, y, 1)[0] for x = 0, 1, ..., len(y) - 1: the least-squares
\* slope, as the fraction n / d
polyfit_slope(ys) ==
    LET len == Len(ys)
        x == [i \in 1..len |-> i - 1]
        sx == sum_to(x, len)
        sxx == sum_to([i \in 1..len |-> x[i] * x[i]], len)
        sy == sum_to([i \in 1..len |-> ys[i].v], len)
        sxy == sum_to([i \in 1..len |-> x[i] * ys[i].v], len)
    IN  [n |-> len * sxy - sx * sy, d |-> len * sxx - sx * sx]

\* max(0, v) for the fraction v
max_zero(v) == IF v.n > 0 THEN v ELSE [n |-> 0, d |-> v.d]

\* the forecast points without the floor of line 198
forecast_points_unfloored(ys, last_date, months_ahead) ==
    LET trend_slope == polyfit_slope(ys)
    IN  [i \in 1..months_ahead |->
            [date |-> last_date + i,
             predicted_sales |-> [n |-> ys[Len(ys)].v * trend_slope.d + trend_slope.n * i,
                                  d |-> trend_slope.d]]]

\* lines 193-199: one point per month ahead
forecast_points(ys, last_date, months_ahead) ==
    LET trend_slope == polyfit_slope(ys)
    IN  [i \in 1..months_ahead |->
            [date |-> last_date + i,
             predicted_sales |->
                 max_zero([n |-> ys[Len(ys)].v * trend_slope.d + trend_slope.n * i,
                           d |-> trend_slope.d])]]

\* predict_future_sales with a forecast from a single month on
predict_future_sales_from_one(d, date_col, amount_col, months_ahead) ==
    IF date_col \notin d.columns \/ amount_col \notin d.columns THEN None
    ELSE LET months == period_bins(d, date_col, "M")
             monthly_sales == period_sums(d, date_col, amount_col, "M")
         IN  IF Len(months) > 0
             THEN Some([avg_3m |-> tail_mean(monthly_sales, 3),
                        avg_6m |-> tail_mean(monthly_sales, 6),
                        avg_12m |-> tail_mean(monthly_sales, 12),
                        trend_slope |-> [n |-> 0, d |-> 1],
                        predictions |->
                            [i \in 1..months_ahead |->
                                [date |-> months[Len(months)] + i,
                                 predicted_sales |->
                                     max_zero([n |-> monthly_sales[Len(months)].v,
                                               d |-> 1])]]])
             ELSE None

predict_future_sales(d, date_col, amount_col, months_ahead) ==
    IF date_col \notin d.columns \/ amount_col \notin d.columns THEN None
    ELSE LET months == period_bins(d, date_col, "M")
             monthly_sales == period_sums(d, date_col, amount_col, "M")
         IN  IF Len(months) > 1
             THEN Some([avg_3m |-> tail_mean(monthly_sales, 3),
                        avg_6m |-> tail_mean(monthly_sales, 6),
                        avg_12m |-> tail_mean(monthly_sales, 12),
                        trend_slope |-> polyfit_slope(monthly_sales),
                        predictions |->
                            forecast_points(monthly_sales, months[Len(months)],
                                            months_ahead)])
             ELSE None

----------------------------------------------------------------------------
(* Rolling-window growth: get_top_growing_clients, compare_brand_growth.   *)
(* Here a timestamp keeps the day of the month too, in months of equal     *)
(* length, so that pd.DateOffset(months=k) moves the month and keeps the   *)
(* day.                                                                    *)

DayTs(m, dd) == [k |-> "ts", m |-> m, d |-> dd]

\* t - pd.DateOffset(months=k)
minus_months(t, k) == IF t.k = "ts" THEN [t EXCEPT !.m = @ - k] ELSE NaT

\* a >= b and a < b on date cells: a comparison with NaT is False
ts_ge(a, b) ==
    a.k = "ts" /\ b.k = "ts" /\ (a.m > b.m \/ (a.m = b.m /\ a.d >= b.d))
ts_lt(a, b) ==
    a.k = "ts" /\ b.k = "ts" /\ (a.m < b.m \/ (a.m = b.m /\ a.d < b.d))

\* df[date_col].max(): NaT is skipped, NaT when no cell holds a date
max_date(d, date_col) ==
    LET ts == {d.rows[i][date_col] : i \in 1..Len(d.rows)} \ {NaT}
    IN  IF ts = {} THEN NaT
        ELSE CHOOSE t \in ts : \A u \in ts : ts_ge(t, u)

\* the prior window closed at its end: date <= prev_end
in_prior_window_closed(t, latest, months) ==
    /\ ts_ge(t, minus_months(latest, 2 * months))
    /\ ~ts_lt(minus_months(latest, months), t)
    /\ t.k = "ts" /\ latest.k = "ts"

\* date >= recent_start
in_recent_window(t, latest, months) == ts_ge(t, minus_months(latest, months))

\* (date >= prev_start) & (date < prev_end)
in_prior_window(t, latest, months) ==
    /\ ts_ge(t, minus_months(latest, 2 * months))
    /\ ts_lt(t, minus_months(latest, months))

\* df[mask].groupby(key_col)[amount_col].sum(), as a set of [key, total, count]
window_sales(d, date_col, key_col, amount_col, months, recent) ==
    LET latest == max_date(d, date_col)
        kept == SelectSeq(d.rows, LAMBDA r :
                    IF recent THEN in_recent_window(r[date_col], latest, months)
                    ELSE in_prior_window(r[date_col], latest, months))
    IN  group_agg([d EXCEPT !.rows = kept], key_col, amount_col)

\* x - y on float cells
f_sub(x, y) ==
    IF x.k = "num" /\ y.k = "num" THEN Num(x.v - y.v) ELSE NAN

\* pd.DataFrame({recent: recent_sales, prev: prev_sales}): one row per key of
\* either series, NaN where a series has no such key; then the growth column
growth_frame(d, date_col, key_col, amount_col, months) ==
    LET recent_sales == window_sales(d, date_col, key_col, amount_col, months, TRUE)
        prev_sales == window_sales(d, date_col, key_col, amount_col, months, FALSE)
        side(groups, key) ==
            IF \E g \in groups : g.key = key
            THEN (CHOOSE g \in groups : g.key = key).total
            ELSE NAN
    IN  {[key |-> key,
          recent |-> side(recent_sales, key),
          prev |-> side(prev_sales, key),
          growth |-> growth_pct(side(recent_sales, key), side(prev_sales, key))] :
         key \in {g.key : g \in recent_sales \cup prev_sales}}

\* the growth cells compared the other way round
growth_le(a, b) ==
    LET rank(x) == CASE x.k = "ninf" -> 0 [] x.k = "num" -> 1 [] OTHER -> 2
    IN  rank(a) < rank(b) \/ (rank(a) = rank(b) /\ (a.k # "num" \/ a.v <= b.v))

\* a >= b on growth cells that are not NaN
growth_ge(a, b) ==
    LET rank(x) == CASE x.k = "ninf" -> 0 [] x.k = "num" -> 1 [] OTHER -> 2
    IN  rank(a) > rank(b) \/ (rank(a) = rank(b) /\ (a.k # "num" \/ a.v >= b.v))

\* sort_values(growth, ascending=False): NaN rows last, ties in any order
RECURSIVE sort_by_growth_desc(_)
sort_by_growth_desc(rowset) ==
    IF rowset = {} THEN {<<>>}
    ELSE LET ranked == {x \in rowset : x.growth.k # "nan"}
             first == IF ranked = {} THEN rowset
                      ELSE {x \in ranked : \A y \in ranked : growth_ge(x.growth, y.growth)}
         IN  UNION {{<<g>> \o rest : rest \in sort_by_growth_desc(rowset \ {g})} :
                    g \in first}

\* the results get_top_growing_clients may return
get_top_growing_clients(d, date_col, client_col, amount_col, top_n) ==
    IF date_col \notin d.columns \/ client_col \notin d.columns
       \/ amount_col \notin d.columns
    THEN {None}
    ELSE {Some(head(s, top_n)) :
             s \in sort_by_growth_desc(growth_frame(d, date_col, client_col, amount_col, 6))}

\* the results compare_brand_growth may return
compare_brand_growth(d, date_col, brand_col, amount_col, months) ==
    IF date_col \notin d.columns \/ brand_col \notin d.columns
       \/ amount_col \notin d.columns
    THEN {None}
    ELSE {Some(s) :
             s \in sort_by_growth_desc(
                      {[key |-> g.key, recent |-> g.recent, prev |-> g.prev,
                        diff |-> f_sub(g.recent, g.prev), growth |-> g.growth] :
                       g \in growth_frame(d, date_col, brand_col, amount_col, months)})}

----------------------------------------------------------------------------
(* Brand dictionary: load_brand_list.  The brand table has its columns in  *)
(* order and its rows as sequences of cells, a cell a string or NaN; the   *)
(* mapping is the sequence of its items in insertion order, as a Python    *)
(* dict keeps them.                                                        *)

\* a call that raised
Raised(e) == [none |-> TRUE, error |-> e]

\* s.split(sep)
RECURSIVE split(_, _)
split(s, sep) ==
    IF \A i \in 1..Len(s) : s[i] # sep THEN <<s>>
    ELSE LET i == CHOOSE j \in 1..Len(s) :
                      s[j] = sep /\ \A h \in 1..(j - 1) : s[h] # sep
         IN  <<SubSeq(s, 1, i - 1)>> \o split(SubSeq(s, i + 1, Len(s)), sep)

\* list(dict.fromkeys(xs)): the first occurrence of each element, in order
RECURSIVE dedup(_)
dedup(xs) ==
    IF xs = <<>> THEN <<>>
    ELSE LET front == dedup(SubSeq(xs, 1, Len(xs) - 1))
             last == xs[Len(xs)]
         IN  IF \E i \in 1..Len(front) : front[i] = last THEN front
             ELSE Append(front, last)

\* mapping[key] = variants on a dict that holds the key without replacing
\* its value
dict_set_keep_first(mapping, key, variants) ==
    IF \E i \in 1..Len(mapping) : mapping[i].brand = key
    THEN mapping
    ELSE Append(mapping, [brand |-> key, variants |-> variants])

\* mapping[key] = variants: a key the dict holds keeps its place and takes
\* the new value, a new key goes last
dict_set(mapping, key, variants) ==
    IF \E i \in 1..Len(mapping) : mapping[i].brand = key
    THEN [i \in 1..Len(mapping) |->
             IF mapping[i].brand = key
             THEN [brand |-> key, variants |-> variants]
             ELSE mapping[i]]
    ELSE Append(mapping, [brand |-> key, variants |-> variants])

\* str(cell).strip() if pd.notna(cell) else ""
cell_text(cell) == IF cell = NaN THEN <<>> ELSE strip(cell)

\* the tokens stripped, the blank ones kept
similar_items_with_blanks(similar_text) ==
    LET parts == split(similar_text, ",")
    IN  [i \in 1..Len(parts) |-> strip(parts[i])]

\* [s.strip() for s in similar_text.split(',') if s.strip()]
similar_items(similar_text) ==
    LET parts == split(similar_text, ",")
        stripped == [i \in 1..Len(parts) |-> strip(parts[i])]
    IN  SelectSeq(stripped, LAMBDA t : t # <<>>)

\* the alias list of a row without its canonical name in front
all_variants_without_key(row, ncols) ==
    LET korean == cell_text(row[1])
        english == cell_text(row[2])
        similar == IF ncols > 2 /\ row[3] # NaN /\ strip(row[3]) # <<>>
                   THEN similar_items(strip(row[3]))
                   ELSE <<>>
    IN  dedup((IF english # <<>> THEN <<english>> ELSE <<>>) \o similar)

\* lines 108-123: the alias list of a row of the form of 2 or more columns
all_variants(row, ncols) ==
    LET korean == cell_text(row[1])
        english == cell_text(row[2])
        similar == IF ncols > 2 /\ row[3] # NaN /\ strip(row[3]) # <<>>
                   THEN similar_items(strip(row[3]))
                   ELSE <<>>
    IN  dedup(<<korean>> \o (IF english # <<>> THEN <<english>> ELSE <<>>) \o similar)

\* 'if not korean: continue' (and dropna, 'if brand', in the 1-column form)
row_is_usable(row) == cell_text(row[1]) # <<>>

\* the loop of lines 87-89 (1 column) or 97-125 (2 or more) from row i on
RECURSIVE load_rows(_, _, _)
load_rows(bd, i, mapping) ==
    IF i > Len(bd.rows) THEN mapping
    ELSE LET row == bd.rows[i]
             key == cell_text(row[1])
         IN  IF ~row_is_usable(row) THEN load_rows(bd, i + 1, mapping)
             ELSE IF Len(bd.columns) < 2
             THEN load_rows(bd, i + 1, dict_set(mapping, key, <<key>>))
             ELSE load_rows(bd, i + 1,
                            dict_set(mapping, key, all_variants(row, Len(bd.columns))))

\* load_brand_list: brand_df.columns[0] raises on a table without columns
load_brand_list(bd) ==
    IF Len(bd.columns) = 0 THEN Raised("IndexError")
    ELSE Some(load_rows(bd, 1, <<>>))

----------------------------------------------------------------------------
(* Dataset Preparation: clean_and_prepare_data.  A cell as loaded is a     *)
(* text, a number, a timestamp or null; "seller" is the seller-name        *)
(* column, "memo" a column the preparation does not look at.  The          *)
(* coercions are modelled cell by cell.                                    *)

Text(s) == [k |-> "str", s |-> s]

\* pd.to_datetime(cell, errors='coerce'): a text that is a date is parsed,
\* any other text and a null cell give NaT
to_datetime(cell) ==
    CASE cell.k = "ts" -> cell
      [] cell.k = "str" /\ cell.s = "2024-01" -> DayTs(1, 1)
      [] cell.k = "str" /\ cell.s = "2024-02" -> DayTs(2, 1)
      [] OTHER -> NaT

\* pd.to_numeric(cell, errors='coerce'): a text that is a number is parsed,
\* any other text and a null cell give NaN
to_numeric(cell) ==
    CASE cell.k = "num" -> cell
      [] cell.k = "str" /\ cell.s = "100" -> Num(100)
      [] cell.k = "str" /\ cell.s = "300" -> Num(300)
      [] OTHER -> NAN

is_null(cell) == cell.k \in {"nan", "nat"}

\* pd.isna of a cell of the column col; a product description is a string
\* of characters, NaN when it is missing; a brand is a name, "nan" when it
\* is missing
null_cell(col, cell) ==
    CASE col = "product" -> cell = NaN
      [] col = "brand" -> cell = "nan"
      [] OTHER -> is_null(cell)

\* the null that fills a cell of the column col
null_of(col) ==
    CASE col = "product" -> NaN
      [] col = "brand" -> "nan"
      [] OTHER -> NAN

\* df.rename(columns={seller: client}) when there is a seller-name and no
\* client-name column
rename_seller(d) ==
    IF "seller" \in d.columns /\ "client" \notin d.columns
    THEN LET cols == (d.columns \ {"seller"}) \cup {"client"}
         IN  [columns |-> cols,
              rows |-> [i \in 1..Len(d.rows) |->
                          [c \in cols |-> IF c = "client" THEN d.rows[i]["seller"]
                                          ELSE d.rows[i][c]]]]
    ELSE d

\* the column names of line 115 and of line 121, in Latin letters; "date"
\* and "amount" stand for one of them where the name does not matter
date_cols == <<"nalja", "ilja", "jeonpyoilja", "panmaeilja", "georaeilja">>
amount_cols == <<"gonggeupgaaek", "geumaek", "hapgyegeumaek", "maechulgeumaek",
                 "panmaegeumaek">>

in_list(col, cols) == \E i \in 1..Len(cols) : cols[i] = col

\* lines 114-125: the date and the amount columns coerced
coerce_columns(d) ==
    [columns |-> d.columns,
     rows |-> [i \in 1..Len(d.rows) |->
                 [c \in d.columns |->
                     CASE c = "date" \/ in_list(c, date_cols) -> to_datetime(d.rows[i][c])
                       [] c = "amount" \/ in_list(c, amount_cols) -> to_numeric(d.rows[i][c])
                       [] OTHER -> d.rows[i][c]]]]

\* df.dropna(how='all')
dropna_all(d) ==
    [columns |-> d.columns,
     rows |-> SelectSeq(d.rows, LAMBDA r : \E c \in d.columns : ~null_cell(c, r[c]))]

\* the preparation with the empty rows dropped before the coercions
clean_and_prepare_data_drop_first(d) == coerce_columns(dropna_all(rename_seller(d)))

clean_and_prepare_data(d) == dropna_all(coerce_columns(rename_seller(d)))

\* df_copy[date_col] = pd.to_datetime(df_copy[date_col]) as a table
to_datetime_column(d, date_col) ==
    IF date_col \notin d.columns THEN d
    ELSE [d EXCEPT !.rows =
             [i \in 1..Len(d.rows) |->
                 [d.rows[i] EXCEPT ![date_col] = to_datetime(@)]]]

\* the conversion done on the caller's table itself (no df.copy())
convert_in_place(d, date_col) ==
    [df |-> to_datetime_column(d, date_col), df_copy |-> to_datetime_column(d, date_col)]

\* df_copy = df.copy(); df_copy[date_col] = pd.to_datetime(df_copy[date_col]):
\* the caller's table and the copy the function goes on with
copy_and_convert(d, date_col) ==
    [df |-> d, df_copy |-> to_datetime_column(d, date_col)]

----------------------------------------------------------------------------
(* File Loading: load_excel_file and merge_sales_data.  An uploaded file   *)
(* is [csv, content]: csv says whether its name ends in .csv, content is   *)
(* the table in it, or Unreadable.                                         *)

Unreadable == [unreadable |-> TRUE]

\* pd.read_excel in a try: the table, or None after the error is shown
load_excel_file(file) ==
    IF file.content = Unreadable THEN None ELSE Some(file.content)

\* pd.read_csv: the table, or an exception
read_csv(file) ==
    IF file.content = Unreadable THEN Raised("ParserError") ELSE Some(file.content)

\* lines 42-52 for one file: what is appended to dfs
RECURSIVE load_all(_)
load_all(sales_files) ==
    IF sales_files = <<>> THEN <<>>
    ELSE LET file == Head(sales_files)
             loaded == IF file.csv THEN read_csv(file) ELSE load_excel_file(file)
         IN  (IF loaded.none THEN <<>> ELSE <<loaded.value>>)
             \o load_all(Tail(sales_files))

\* the rows of the tables one after the other, every row over cols
RECURSIVE concat_rows(_, _)
concat_rows(dfs, cols) ==
    IF dfs = <<>> THEN <<>>
    ELSE LET d == Head(dfs)
         IN  [i \in 1..Len(d.rows) |->
                 [c \in cols |-> IF c \in d.columns THEN d.rows[i][c]
                                 ELSE null_of(c)]]
             \o concat_rows(Tail(dfs), cols)

\* pd.concat(dfs, ignore_index=True)
concat(dfs) ==
    LET cols == UNION {dfs[i].columns : i \in 1..Len(dfs)}
    IN  [columns |-> cols, rows |-> concat_rows(dfs, cols)]

\* the merge given up at the first file that does not load
merge_sales_data_all_or_nothing(sales_files) ==
    IF Len(load_all(sales_files)) < Len(sales_files) \/ sales_files = <<>>
    THEN None
    ELSE Some(concat(load_all(sales_files)))

merge_sales_data(sales_files) ==
    LET dfs == load_all(sales_files)
    IN  IF dfs # <<>> THEN Some(concat(dfs)) ELSE None

----------------------------------------------------------------------------
(* The share analyses on a loaded dataset.                                 *)

MaxRows == 3

ShareCatalogue ==
    {[client |-> "A", product |-> <<"a">>],
     [client |-> "B", product |-> <<"a", "B">>],
     [client |-> "C", product |-> <<"B">>]}
ShareAmounts == {NAN, Num(-100), Num(0), Num(100)}
ShareMapping ==
    <<[brand |-> "X", variants |-> <<<<"a">>>>],
      [brand |-> "Y", variants |-> <<<<"A", "b">>>>]>>

ShareRows ==
    {[c \in {"client", "product", "amount"} |->
         IF c = "amount" THEN a ELSE e[c]] : e \in ShareCatalogue, a \in ShareAmounts}

RECURSIVE RowLists(_, _)
RowLists(rows, n) ==
    IF n = 0 THEN {<<>>}
    ELSE LET shorter == RowLists(rows, n - 1)
         IN  shorter \cup {Append(l, r) : l \in {t \in shorter : Len(t) = n - 1},
                                          r \in rows}

\* a dataset after the sales upload and the brand-list upload
InitShare ==
    /\ pc = "loaded"
    /\ df \in {add_brand_column([columns |-> {"client", "product", "amount"},
                                  rows |-> l], ShareMapping, "product") :
                  l \in RowLists(ShareRows, MaxRows)}
    /\ call = NoCall
    /\ result = None
    /\ page = "none"
    /\ product_name = NaN
    /\ brand_mapping = ShareMapping
    /\ brand = "none"
    /\ brand_df = NoData

AnalyzeByClient ==
    /\ pc = "loaded"
    /\ \E top_n \in 1..MaxRows :
          /\ call' = [fn |-> "client", top_n |-> top_n]
          /\ result' \in analyze_sales_by_client(df, "client", "amount", top_n)
    /\ pc' = "analysed"
    /\ UNCHANGED <<df, page, product_name, brand_mapping, brand, brand_df>>

AnalyzeByProduct ==
    /\ pc = "loaded"
    /\ \E top_n \in 1..MaxRows :
          /\ call' = [fn |-> "product", top_n |-> top_n]
          /\ result' \in analyze_sales_by_product(df, "product", "amount", top_n)
    /\ pc' = "analysed"
    /\ UNCHANGED <<df, page, product_name, brand_mapping, brand, brand_df>>

AnalyzeByBrand ==
    /\ pc = "loaded"
    /\ \E top_n \in 1..MaxRows :
          /\ call' = [fn |-> "brand", top_n |-> top_n]
          /\ result' \in analyze_sales_by_brand(df, "brand", "amount", top_n)
    /\ pc' = "analysed"
    /\ UNCHANGED <<df, page, product_name, brand_mapping, brand, brand_df>>

NextShare == AnalyzeByClient \/ AnalyzeByProduct \/ AnalyzeByBrand

SpecShare == InitShare /\ [][NextShare]_vars

----------------------------------------------------------------------------
(* The by-period analysis and the growth rate on a loaded dataset.         *)

MaxTimeRows == 3
MaxMonth == 3

Dates == {NaT} \cup {Ts(m) : m \in 1..MaxMonth}
PeriodAmounts == {NAN, Num(-100), Num(300)}
PeriodRows ==
    {[c \in {"date", "amount"} |-> IF c = "date" THEN t ELSE a] :
        t \in Dates, a \in PeriodAmounts}
Periods == {"M", "Q"}

\* the row lists the time grouping is modelled for: no row at all, or at
\* least one row with a date
Groupable(l) == l = <<>> \/ \E i \in 1..Len(l) : l[i]["date"].k = "ts"

InitPeriod ==
    /\ pc = "loaded"
    /\ df \in {[columns |-> {"date", "amount"}, rows |-> l] :
                  l \in {r \in RowLists(PeriodRows, MaxTimeRows) : Groupable(r)}}
    /\ call = NoCall
    /\ result = None
    /\ page = "none"
    /\ product_name = NaN
    /\ brand_mapping = <<>>
    /\ brand = "none"
    /\ brand_df = NoData

AnalyzeByPeriod ==
    /\ pc = "loaded"
    /\ \E period \in Periods :
          /\ call' = [fn |-> "period", period |-> period]
          /\ result' = analyze_sales_by_period(df, "date", "amount", period)
    /\ pc' = "analysed"
    /\ UNCHANGED <<df, page, product_name, brand_mapping, brand, brand_df>>

CalculateGrowthRate ==
    /\ pc = "loaded"
    /\ \E period \in Periods :
          /\ call' = [fn |-> "growth", period |-> period]
          /\ result' = calculate_growth_rate(df, "date", "amount", period)
    /\ pc' = "analysed"
    /\ UNCHANGED <<df, page, product_name, brand_mapping, brand, brand_df>>

NextPeriod == AnalyzeByPeriod \/ CalculateGrowthRate

SpecPeriod == InitPeriod /\ [][NextPeriod]_vars

----------------------------------------------------------------------------
(* The forecast: predict_future_sales called on a dataset, and the         *)
(* prediction page, which finds the columns and then calls it.             *)

MaxAhead == 2

ForecastAmounts == {Num(100), Num(200), Num(300)}
ForecastRows ==
    {[c \in {"date", "amount"} |-> IF c = "date" THEN t ELSE a] :
        t \in Dates \ {NaT}, a \in ForecastAmounts}

\* the dataset with the columns cols only
project(l, cols) ==
    [columns |-> cols, rows |-> [i \in 1..Len(l) |-> [c \in cols |-> l[i][c]]]]

InitForecast ==
    /\ \/ /\ pc = "no_upload"
          /\ df = NoData
       \/ /\ pc = "loaded"
          /\ df \in {project(l, cols) :
                        l \in {r \in RowLists(ForecastRows, MaxTimeRows) : Groupable(r)},
                        cols \in {{"date", "amount"}, {"date"}, {"amount"}}}
    /\ call = NoCall
    /\ result = None
    /\ page = "none"
    /\ product_name = NaN
    /\ brand_mapping = <<>>
    /\ brand = "none"
    /\ brand_df = NoData

\* one call predict_future_sales(df, date_col, amount_col, months_ahead)
PredictFutureSales ==
    /\ pc = "loaded"
    /\ \E months_ahead \in 1..MaxAhead :
          /\ call' = [fn |-> "predict", months_ahead |-> months_ahead]
          /\ result' = predict_future_sales(df, "date", "amount", months_ahead)
    /\ pc' = "analysed"
    /\ UNCHANGED <<df, page, product_name, brand_mapping, brand, brand_df>>

\* page_prediction: without an upload the page asks for one; otherwise the
\* columns are looked for, the forecast is asked for, and the forecast or the
\* error is shown
PagePrediction ==
    /\ pc \in {"no_upload", "loaded"}
    /\ IF pc = "no_upload"
       THEN /\ call' = [fn |-> "page_prediction", months_ahead |-> 0]
            /\ result' = None
            /\ page' = "upload_first"
       ELSE IF "date" \notin df.columns \/ "amount" \notin df.columns
       THEN /\ call' = [fn |-> "page_prediction", months_ahead |-> 0]
            /\ result' = None
            /\ page' = "columns_not_found"
       ELSE \E months_ahead \in 1..MaxAhead :
               LET prediction_result ==
                       predict_future_sales(df, "date", "amount", months_ahead)
               IN  /\ call' = [fn |-> "page_prediction", months_ahead |-> months_ahead]
                   /\ result' = prediction_result
                   /\ page' = IF prediction_result.none THEN "insufficient_data"
                              ELSE "forecast"
    /\ pc' = "rendered"
    /\ UNCHANGED <<df, product_name, brand_mapping, brand, brand_df>>

NextForecast == PredictFutureSales \/ PagePrediction

SpecForecast == InitForecast /\ [][NextForecast]_vars

----------------------------------------------------------------------------
(* The rolling-window growth analyses on a loaded dataset.                 *)

MaxWindowRows == 3

\* the months and days the records are dated in: the ends of the windows of
\* 6 and of 12 months before a latest date in month 12, and the days around
WindowMonths == {0, 6, 12}
WindowDays == {1, 2}
WindowDates ==
    {NaT} \cup ({DayTs(m, dd) : m \in WindowMonths, dd \in WindowDays} \ {DayTs(12, 1)})
WindowCatalogue == {[client |-> "A", brand |-> "X"], [client |-> "B", brand |-> "Y"]}
WindowRows ==
    {[c \in {"date", "client", "brand", "amount"} |->
         CASE c = "date" -> t
           [] c = "client" -> e.client
           [] c = "brand" -> e.brand
           [] OTHER -> Num(100)] :
     t \in WindowDates, e \in WindowCatalogue}
TopNs == {1, 10}
WindowLengths == {6, 12}

InitWindow ==
    /\ pc = "loaded"
    /\ df \in {[columns |-> {"date", "client", "brand", "amount"}, rows |-> l] :
                  l \in RowLists(WindowRows, MaxWindowRows)}
    /\ call = NoCall
    /\ result = None
    /\ page = "none"
    /\ product_name = NaN
    /\ brand_mapping = <<>>
    /\ brand = "none"
    /\ brand_df = NoData

GetTopGrowingClients ==
    /\ pc = "loaded"
    /\ \E top_n \in TopNs :
          /\ call' = [fn |-> "top_growing", months |-> 6, top_n |-> top_n]
          /\ result' \in get_top_growing_clients(df, "date", "client", "amount", top_n)
    /\ pc' = "analysed"
    /\ UNCHANGED <<df, page, product_name, brand_mapping, brand, brand_df>>

CompareBrandGrowth ==
    /\ pc = "loaded"
    /\ \E months \in WindowLengths :
          /\ call' = [fn |-> "brand_growth", months |-> months, top_n |-> 0]
          /\ result' \in compare_brand_growth(df, "date", "brand", "amount", months)
    /\ pc' = "analysed"
    /\ UNCHANGED <<df, page, product_name, brand_mapping, brand, brand_df>>

NextWindow == GetTopGrowingClients \/ CompareBrandGrowth

SpecWindow == InitWindow /\ [][NextWindow]_vars

----------------------------------------------------------------------------
(* The brand dictionary built from a brand table.                          *)

MaxBrandRows == 2

FirstCells == {NaN, <<" ">>, <<" ", "K">>, <<"L">>}
SecondCells == {NaN, <<"K">>, <<"e", " ">>}
ThirdCells == {NaN, <<" ">>, <<"e", ",", " ", ",", "s", ",", "K">>}
BrandColumns == {<<>>, <<"c1">>, <<"c1", "c2">>, <<"c1", "c2", "c3">>}

\* the rows of a table of n columns
BrandRowsOf(n) ==
    CASE n = 0 -> {}
      [] n = 1 -> {<<a>> : a \in FirstCells}
      [] n = 2 -> {<<a, b>> : a \in FirstCells, b \in SecondCells}
      [] OTHER -> {<<a, b, c>> : a \in FirstCells, b \in SecondCells, c \in ThirdCells}

InitBrandList ==
    /\ pc = "brand_table"
    /\ \E cols \in BrandColumns :
          brand_df \in {[columns |-> cols, rows |-> l] :
                           l \in RowLists(BrandRowsOf(Len(cols)), MaxBrandRows)}
    /\ df = NoData
    /\ call = NoCall
    /\ result = None
    /\ page = "none"
    /\ product_name = NaN
    /\ brand_mapping = <<>>
    /\ brand = "none"

LoadBrandList ==
    /\ pc = "brand_table"
    /\ call' = [fn |-> "load_brand_list"]
    /\ result' = load_brand_list(brand_df)
    /\ pc' = "loaded_brands"
    /\ UNCHANGED <<df, page, product_name, brand_mapping, brand, brand_df>>

NextBrandList == LoadBrandList

SpecBrandList == InitBrandList /\ [][NextBrandList]_vars

----------------------------------------------------------------------------
(* Dataset Preparation run on a table as loaded, and run again on its own  *)
(* result.                                                                 *)

MaxCleanRows == 2

CleanColumnSets ==
    {{"seller", "date", "amount"}, {"seller", "client", "amount"},
     {"client", "date", "memo"}, {"seller"}, {"memo"}}
NameCells == {Text("A"), NAN}
DateCells == {Text("2024-01"), Text("2024-02"), Text("soon"), NAN, Ts(1)}
AmountCells == {Text("100"), Text("1,000"), NAN, Num(300)}

\* the rows a table with the columns cols may hold
RECURSIVE CleanRowsOf(_)
CleanRowsOf(cols) ==
    IF cols = {} THEN {<<>>}
    ELSE LET c == CHOOSE x \in cols : TRUE
             cells_of_c == CASE c = "date" -> DateCells
                             [] c = "amount" -> AmountCells
                             [] OTHER -> NameCells
         IN  {[x \in cols |-> IF x = c THEN v ELSE r[x]] :
                 v \in cells_of_c, r \in CleanRowsOf(cols \ {c})}

InitClean ==
    /\ pc = "raw"
    /\ \E cols \in CleanColumnSets :
          df \in {[columns |-> cols, rows |-> l] :
                     l \in RowLists(CleanRowsOf(cols), MaxCleanRows)}
    /\ call = NoCall
    /\ result = None
    /\ page = "none"
    /\ product_name = NaN
    /\ brand_mapping = <<>>
    /\ brand = "none"
    /\ brand_df = NoData

\* clean_and_prepare_data on the table as loaded; the result is kept
CleanAndPrepare ==
    /\ pc = "raw"
    /\ call' = [fn |-> "clean_and_prepare_data"]
    /\ df' = clean_and_prepare_data(df)
    /\ result' = Some(clean_and_prepare_data(df))
    /\ pc' = "prepared"
    /\ UNCHANGED <<page, product_name, brand_mapping, brand, brand_df>>

\* clean_and_prepare_data on the prepared table
CleanAndPrepareAgain ==
    /\ pc = "prepared"
    /\ df' = clean_and_prepare_data(df)
    /\ pc' = "prepared_again"
    /\ UNCHANGED <<call, result, page, product_name, brand_mapping, brand, brand_df>>

NextClean == CleanAndPrepare \/ CleanAndPrepareAgain

SpecClean == InitClean /\ [][NextClean]_vars

----------------------------------------------------------------------------
(* merge_sales_data on a list of uploaded files.                           *)

MaxFiles == 3

FileTables ==
    {[columns |-> {}, rows |-> <<>>],
     [columns |-> {"product"}, rows |-> << [product |-> <<"a">>] >>],
     [columns |-> {"amount"}, rows |-> << [amount |-> Num(100)], [amount |-> NAN] >>],
     [columns |-> {"product", "amount"},
      rows |-> << [product |-> NaN, amount |-> Text("1,000")] >>],
     [columns |-> {"product", "amount"}, rows |-> <<>>]}

UploadedFiles == {[csv |-> c, content |-> t] : c \in BOOLEAN, t \in FileTables \cup {Unreadable}}

FileLists == RowLists(UploadedFiles, MaxFiles)

InitMerge ==
    /\ pc = "files_chosen"
    /\ df = NoData
    /\ call = NoCall
    /\ result = None
    /\ page = "none"
    /\ product_name = NaN
    /\ brand_mapping = <<>>
    /\ brand = "none"
    /\ brand_df = NoData

MergeSalesData ==
    /\ pc = "files_chosen"
    /\ \E sales_files \in FileLists :
          /\ call' = [fn |-> "merge_sales_data", sales_files |-> sales_files]
          /\ result' = merge_sales_data(sales_files)
    /\ pc' = "merged"
    /\ UNCHANGED <<df, page, product_name, brand_mapping, brand, brand_df>>

NextMerge == MergeSalesData

SpecMerge == InitMerge /\ [][NextMerge]_vars

----------------------------------------------------------------------------
(* The upload pages on the session: page_data_upload (sales files) and     *)
(* page_brand_upload.  df, brand_df and brand_mapping are the session keys *)
(* 'merged_sales_df', 'brand_df' and 'brand_mapping': None while the key   *)
(* is absent, Some(value) once it is stored.  No client table is in the    *)
(* session.                                                                *)

MaxSessionFiles == 2

SessionSalesTables ==
    {[columns |-> {"product", "amount"},
      rows |-> << [product |-> <<"L", " ", "a">>, amount |-> Text("100")],
                  [product |-> NaN, amount |-> NAN] >>],
     [columns |-> {"product", "brand"},
      rows |-> << [product |-> <<"K">>, brand |-> "Z"] >>],
     [columns |-> {"brand"}, rows |-> << [brand |-> "Z"] >>],
     [columns |-> {"amount"}, rows |-> << [amount |-> Num(300)] >>]}

\* the tables as Excel files, an unreadable file of either kind
SessionSalesFiles ==
    {[csv |-> FALSE, content |-> t] : t \in SessionSalesTables}
    \cup {[csv |-> c, content |-> Unreadable] : c \in BOOLEAN}

SessionBrandTables ==
    {[columns |-> <<>>, rows |-> <<>>],
     [columns |-> <<"c1">>, rows |-> << <<NaN>> >>],
     [columns |-> <<"c1">>, rows |-> << <<<<"L">>>> >>],
     [columns |-> <<"c1", "c2">>, rows |-> << <<<<"K">>, <<"L">>>> >>]}

SessionBrandFiles ==
    {[csv |-> c, content |-> t] : c \in BOOLEAN, t \in SessionBrandTables \cup {Unreadable}}

\* a key of the loaded mapping as the brand name the classifier returns
\* (the same Python string)
brand_name(key) ==
    CASE key = <<"L">> -> "L"
      [] key = <<"K">> -> "K"
      [] OTHER -> "unnamed"

\* the loaded mapping as extract_brand_from_product reads it
as_brand_mapping(mapping) ==
    [i \in 1..Len(mapping) |->
        [brand |-> brand_name(mapping[i].brand), variants |-> mapping[i].variants]]

InitSession ==
    /\ pc = "session"
    /\ df = None
    /\ brand_df = None
    /\ brand_mapping = None
    /\ call = NoCall
    /\ result = None
    /\ page = "none"
    /\ product_name = NaN
    /\ brand = "none"

\* app.py 239-254: the files merged, the merge prepared and stored
SalesUpload ==
    /\ pc = "session"
    /\ \E sales_files \in RowLists(SessionSalesFiles, MaxSessionFiles) \ {<<>>} :
          LET merged_df == merge_sales_data(sales_files)
          IN  IF merged_df.none
              THEN /\ page' = "no_sales_loaded"
                   /\ UNCHANGED df
              ELSE /\ df' = Some(clean_and_prepare_data(merged_df.value))
                   /\ page' = "sales_loaded"
    /\ call' = [fn |-> "page_data_upload"]
    /\ UNCHANGED <<pc, brand_df, brand_mapping, result, product_name, brand>>

\* app.py 872-949: the brand table stored, the mapping built from it and
\* stored, the brand column added to the stored dataset; an exception at
\* any step ends the interaction at the except clause of line 946
BrandUpload ==
    /\ pc = "session"
    /\ \E brand_file \in SessionBrandFiles :
          LET loaded == IF brand_file.csv THEN read_csv(brand_file)
                        ELSE load_excel_file(brand_file)
              mapping == load_brand_list(loaded.value)
          IN  IF loaded.none
              THEN /\ page' = "brand_load_failed"
                   /\ UNCHANGED <<df, brand_df, brand_mapping>>
              ELSE /\ brand_df' = Some(loaded.value)
                   /\ IF mapping.none
                      THEN /\ page' = "brand_load_failed"
                           /\ UNCHANGED <<df, brand_mapping>>
                      ELSE /\ brand_mapping' = Some(mapping.value)
                           /\ IF df.none
                              THEN /\ page' = "brands_loaded"
                                   /\ UNCHANGED df
                              ELSE IF "product" \in df.value.columns
                              THEN /\ df' = Some(add_brand_column(
                                                df.value, as_brand_mapping(mapping.value),
                                                "product"))
                                   /\ page' = "brands_matched"
                              ELSE /\ page' = "brand_matching_skipped"
                                   /\ UNCHANGED df
    /\ call' = [fn |-> "page_brand_upload"]
    /\ UNCHANGED <<pc, result, product_name, brand>>

NextSession == SalesUpload \/ BrandUpload

SpecSession == InitSession /\ [][NextSession]_vars

----------------------------------------------------------------------------
(* The eight analysis functions called in any order, any number of times,  *)
(* on the dataset held in the session.  The date column holds timestamps   *)
(* or texts that are dates.                                                *)

MaxAnalysisRows == 2

AnalysisDates == {Text("2024-01"), Text("2024-02"), DayTs(2, 1)}
AnalysisCatalogue ==
    {[client |-> "A", product |-> "p", brand |-> "X"],
     [client |-> "B", product |-> "q", brand |-> "Y"]}
AnalysisRows ==
    {[c \in {"date", "client", "product", "brand", "amount"} |->
         CASE c = "date" -> t
           [] c = "amount" -> a
           [] OTHER -> e[c]] :
     t \in AnalysisDates, e \in AnalysisCatalogue, a \in {Num(100), Num(300)}}
DateColumns == {"date", "missing"}

InitAnalyses ==
    /\ pc = "loaded"
    /\ df \in {[columns |-> {"date", "client", "product", "brand", "amount"}, rows |-> l] :
                  l \in RowLists(AnalysisRows, MaxAnalysisRows)}
    /\ call = NoCall
    /\ result = None
    /\ page = "none"
    /\ product_name = NaN
    /\ brand_mapping = <<>>
    /\ brand = "none"
    /\ brand_df = NoData

CallAnalyzeByPeriod ==
    /\ \E date_col \in DateColumns, period \in {"M", "Q"} :
          LET frames == copy_and_convert(df, date_col)
          IN  /\ call' = [fn |-> "analyze_sales_by_period", date_col |-> date_col,
                          period |-> period, n |-> 0]
              /\ result' = analyze_sales_by_period(frames.df_copy, date_col, "amount", period)
              /\ df' = frames.df
    /\ pc' = "analysed"
    /\ UNCHANGED <<page, product_name, brand_mapping, brand, brand_df>>

CallAnalyzeByClient ==
    /\ \E top_n \in TopNs :
          /\ call' = [fn |-> "analyze_sales_by_client", date_col |-> "none",
                      period |-> "none", n |-> top_n]
          /\ result' \in analyze_sales_by_client(df, "client", "amount", top_n)
    /\ pc' = "analysed"
    /\ UNCHANGED <<df, page, product_name, brand_mapping, brand, brand_df>>

CallAnalyzeByProduct ==
    /\ \E top_n \in TopNs :
          /\ call' = [fn |-> "analyze_sales_by_product", date_col |-> "none",
                      period |-> "none", n |-> top_n]
          /\ result' \in analyze_sales_by_product(df, "product", "amount", top_n)
    /\ pc' = "analysed"
    /\ UNCHANGED <<df, page, product_name, brand_mapping, brand, brand_df>>

CallAnalyzeByBrand ==
    /\ \E top_n \in TopNs :
          /\ call' = [fn |-> "analyze_sales_by_brand", date_col |-> "none",
                      period |-> "none", n |-> top_n]
          /\ result' \in analyze_sales_by_brand(df, "brand", "amount", top_n)
    /\ pc' = "analysed"
    /\ UNCHANGED <<df, page, product_name, brand_mapping, brand, brand_df>>

CallCalculateGrowthRate ==
    /\ \E date_col \in DateColumns, period \in {"M", "Q"} :
          LET frames == copy_and_convert(df, date_col)
          IN  /\ call' = [fn |-> "calculate_growth_rate", date_col |-> date_col,
                          period |-> period, n |-> 0]
              /\ result' = calculate_growth_rate(frames.df_copy, date_col, "amount", period)
              /\ df' = frames.df
    /\ pc' = "analysed"
    /\ UNCHANGED <<page, product_name, brand_mapping, brand, brand_df>>

CallPredictFutureSales ==
    /\ \E date_col \in DateColumns, months_ahead \in {1, 2} :
          LET frames == copy_and_convert(df, date_col)
          IN  /\ call' = [fn |-> "predict_future_sales", date_col |-> date_col,
                          period |-> "M", n |-> months_ahead]
              /\ result' = predict_future_sales(frames.df_copy, date_col, "amount",
                                                months_ahead)
              /\ df' = frames.df
    /\ pc' = "analysed"
    /\ UNCHANGED <<page, product_name, brand_mapping, brand, brand_df>>

CallGetTopGrowingClients ==
    /\ \E date_col \in DateColumns, top_n \in TopNs :
          LET frames == copy_and_convert(df, date_col)
          IN  /\ call' = [fn |-> "get_top_growing_clients", date_col |-> date_col,
                          period |-> "none", n |-> top_n]
              /\ result' \in get_top_growing_clients(frames.df_copy, date_col, "client",
                                                     "amount", top_n)
              /\ df' = frames.df
    /\ pc' = "analysed"
    /\ UNCHANGED <<page, product_name, brand_mapping, brand, brand_df>>

CallCompareBrandGrowth ==
    /\ \E date_col \in DateColumns, months \in {1, 6} :
          LET frames == copy_and_convert(df, date_col)
          IN  /\ call' = [fn |-> "compare_brand_growth", date_col |-> date_col,
                          period |-> "none", n |-> months]
              /\ result' \in compare_brand_growth(frames.df_copy, date_col, "brand",
                                                  "amount", months)
              /\ df' = frames.df
    /\ pc' = "analysed"
    /\ UNCHANGED <<page, product_name, brand_mapping, brand, brand_df>>

NextAnalyses ==
    \/ CallAnalyzeByPeriod
    \/ CallAnalyzeByClient
    \/ CallAnalyzeByProduct
    \/ CallAnalyzeByBrand
    \/ CallCalculateGrowthRate
    \/ CallPredictFutureSales
    \/ CallGetTopGrowingClients
    \/ CallCompareBrandGrowth

SpecAnalyses == InitAnalyses /\ [][NextAnalyses]_vars

----------------------------------------------------------------------------
(* The rolling-window functions on datasets in which two entities can both *)
(* have records in both windows: every record is dated on the latest day   *)
(* or on the day before the recent window of 6 months starts.              *)

MaxOrderRows == 2

\* every entity has a record of 100 in the recent and in the prior window
OrderBaseRows ==
    << [date |-> DayTs(12, 2), client |-> "A", brand |-> "X", amount |-> Num(100)],
       [date |-> DayTs(6, 1), client |-> "A", brand |-> "X", amount |-> Num(100)],
       [date |-> DayTs(12, 2), client |-> "B", brand |-> "Y", amount |-> Num(100)],
       [date |-> DayTs(6, 1), client |-> "B", brand |-> "Y", amount |-> Num(100)] >>

\* the further records: a sale or a return in either window
OrderRows ==
    {[c \in {"date", "client", "brand", "amount"} |->
         CASE c = "date" -> t
           [] c = "client" -> e.client
           [] c = "brand" -> e.brand
           [] OTHER -> a] :
     t \in {DayTs(12, 2), DayTs(6, 1)}, e \in WindowCatalogue, a \in {Num(-100), Num(100)}}

InitGrowthOrder ==
    /\ pc = "loaded"
    /\ df \in {[columns |-> {"date", "client", "brand", "amount"},
                 rows |-> OrderBaseRows \o l] :
                  l \in RowLists(OrderRows, MaxOrderRows)}
    /\ call = NoCall
    /\ result = None
    /\ page = "none"
    /\ product_name = NaN
    /\ brand_mapping = <<>>
    /\ brand = "none"
    /\ brand_df = NoData

SpecGrowthOrder == InitGrowthOrder /\ [][NextWindow]_vars

----------------------------------------------------------------------------
(* Claims about the share analyses, stated over the rows of the dataset.   *)

\* the column the last call grouped by
KeyCol == call.fn

\* the sum of the amounts, NaN apart, of the rows at the indices I
RECURSIVE RawSum(_)
RawSum(I) ==
    IF I = {} THEN 0
    ELSE LET i == CHOOSE x \in I : TRUE
         IN  (IF df.rows[i]["amount"].k = "num" THEN df.rows[i]["amount"].v ELSE 0)
             + RawSum(I \ {i})

RowsOf(key) == {i \in 1..Len(df.rows) : df.rows[i][KeyCol] = key}
GrandTotal == RawSum(1..Len(df.rows))
Entities == {df.rows[i][KeyCol] : i \in 1..Len(df.rows)}

\* an entity's share of the grand total of the whole dataset
FullShare(key) == pct(Num(RawSum(RowsOf(key))), Num(GrandTotal))

Ranked == pc = "analysed" /\ call.fn \in {"client", "product", "brand"} /\ ~result.none
Cumulative == call.fn \in {"client", "brand"}
Untruncated == Len(result.value) = Cardinality(Entities)

\* the sum of the share column of the result
ShareSum == series_sum([i \in 1..Len(result.value) |-> result.value[i].share])

Within(x, centre, tol) ==
    x.k = "num" /\ x.v - centre <= tol /\ centre - x.v <= tol

\* C4 as stated, for a dataset with at least one entity: the shares of the
\* untruncated by-client or by-brand result sum to 100 within 0.1, and the last
\* cumulative share is that sum.
C4_SharesSumTo100 ==
    (Ranked /\ Cumulative /\ Untruncated /\ Entities # {}) =>
        /\ Within(ShareSum, 10000, 10)
        /\ result.value[Len(result.value)].cum = ShareSum

\* C4 as amended: when the grand total is not zero, the shares of the
\* untruncated by-client or by-brand result sum to 100 within 0.005 per
\* entity, and the last cumulative share is that sum.
C4_SharesSumTo100WhenTotalNonZero ==
    (Ranked /\ Cumulative /\ Untruncated /\ GrandTotal # 0) =>
        /\ ShareSum.k = "num"
        /\ 2 * (ShareSum.v - 10000) <= Cardinality(Entities)
        /\ 2 * (10000 - ShareSum.v) <= Cardinality(Entities)
        /\ Within(ShareSum, 10000, 10)
        /\ result.value[Len(result.value)].cum = ShareSum

\* C4's case: three entities of one third each, whose rounded shares sum to
\* 99.99.
C4_Witness ==
    /\ Ranked /\ Cumulative /\ Untruncated /\ GrandTotal # 0
    /\ Cardinality(Entities) = 3
    /\ ShareSum = Num(9999)
    /\ result.value[3].cum = Num(9999)

\* C5: every row returned carries the entity's share of the grand total of
\* the whole dataset, and its cumulative share is the running sum of those
\* shares down the rows, whatever top_n is.
C5_ShareOverFullSet ==
    Ranked =>
        \A i \in 1..Len(result.value) :
            /\ result.value[i].share = FullShare(result.value[i].key)
            /\ Cumulative =>
                   result.value[i].cum =
                       cumsum([j \in 1..i |-> FullShare(result.value[j].key)])[i]

\* C5's case: a result cut to fewer rows than there are entities, with a
\* share that is not the share among the rows kept.
C5_Witness ==
    /\ Ranked /\ Cumulative
    /\ Len(result.value) = 1
    /\ Cardinality(Entities) = 3
    /\ result.value[1].share = Num(5000)
    /\ result.value[1].cum = Num(5000)

----------------------------------------------------------------------------
(* Claims about the by-period analysis and the growth rate, stated over    *)
(* the rows of the dataset.                                                *)

\* the rows that carry a date
DatedIdx ==
    IF "date" \in df.columns
    THEN {i \in 1..Len(df.rows) : df.rows[i]["date"].k = "ts"}
    ELSE {}

\* month m lies in the calendar period p
InPeriod(m, period, p) ==
    IF period = "M" THEN m = p ELSE 3 * p <= m /\ m <= 3 * p + 2

RecordsIn(period, p) == {i \in DatedIdx : InPeriod(df.rows[i]["date"].m, period, p)}

\* the calendar periods that hold a record
PeriodsSeen(period) == {p \in 0..(MaxMonth + 1) : RecordsIn(period, p) # {}}

PeriodCall == pc = "analysed" /\ call.fn = "period" /\ ~result.none
GrowthCall == pc = "analysed" /\ call.fn = "growth" /\ ~result.none

\* C6 as stated: analyze_sales_by_period has a row only for a calendar period
\* that holds at least one record.
C6_NoZeroFill ==
    PeriodCall =>
        \A i \in 1..Len(result.value) :
            RecordsIn(call.period, result.value[i].period) # {}

\* C6 as amended: analyze_sales_by_period has one row, in calendar order, for
\* every calendar period from the period of the earliest record to the period
\* of the latest; a period in between that holds no record has sum 0, count 0
\* and a null mean, and every other row sums and counts the amounts present
\* of its records.
C6_EveryPeriodOfTheSpan ==
    PeriodCall =>
        LET seen == PeriodsSeen(call.period)
            rows == result.value
        IN  /\ {rows[i].period : i \in 1..Len(rows)} =
                   {p \in 0..(MaxMonth + 1) :
                       \E lo \in seen, hi \in seen : lo <= p /\ p <= hi}
            /\ \A i \in 1..(Len(rows) - 1) : rows[i + 1].period = rows[i].period + 1
            /\ \A i \in 1..Len(rows) :
                  LET recs == RecordsIn(call.period, rows[i].period)
                      present == {r \in recs : df.rows[r]["amount"].k = "num"}
                  IN  /\ rows[i].sales = Num(RawSum(recs))
                      /\ rows[i].count = Cardinality(present)
                      /\ recs = {} => rows[i].mean = NAN

\* C6's case: records in a first and in a third month and none in the month
\* between, which has a row of sum 0 and count 0.
C6_Witness ==
    /\ PeriodCall /\ call.period = "M"
    /\ Len(result.value) = 3
    /\ RecordsIn("M", result.value[2].period) = {}
    /\ result.value[2].sales = Num(0)
    /\ result.value[2].count = 0
    /\ result.value[1].count > 0 /\ result.value[3].count > 0

\* g is the quotient num / den in percent, rounded to 2 decimals
RoundedPct(g, num, den) ==
    LET diff == g.v * den - num * 10000
        absdiff == IF diff < 0 THEN -diff ELSE diff
        absden == IF den < 0 THEN -den ELSE den
    IN  g.k = "num" /\ 2 * absdiff <= absden

\* the sum of the period of row i of the growth table, and of the period
\* before it
CurSum(i) == RawSum(RecordsIn(call.period, result.value[i].period))
PrevSum(i) == RawSum(RecordsIn(call.period, result.value[i].period - 1))

\* C10 as stated: the growth of a period is null when it is the first period
\* or the sum of the period before it is zero, and otherwise is
\* (current - previous) / previous * 100 rounded to 2 decimals.
C10_NullWhenPrecedingZeroOrAbsent ==
    GrowthCall =>
        \A i \in 1..Len(result.value) :
            IF i = 1 \/ PrevSum(i) = 0
            THEN result.value[i].growth = NAN
            ELSE RoundedPct(result.value[i].growth, CurSum(i) - PrevSum(i), PrevSum(i))

\* C10 as amended: the growth of the first period is null; when the sum of
\* the period before is zero the growth is null if the current sum is zero
\* too, positive infinity if it is positive and negative infinity if it is
\* negative; otherwise it is (current - previous) / previous * 100 rounded to
\* 2 decimals.
C10_NullOrInfiniteWhenPrecedingZero ==
    GrowthCall =>
        \A i \in 1..Len(result.value) :
            LET g == result.value[i].growth
            IN  /\ result.value[i].sales = Num(CurSum(i))
                /\ CASE i = 1 -> g = NAN /\ result.value[i].prev = NAN
                     [] i > 1 /\ PrevSum(i) = 0 ->
                          /\ result.value[i].prev = Num(0)
                          /\ CurSum(i) = 0 => g = NAN
                          /\ CurSum(i) > 0 => g = PINF
                          /\ CurSum(i) < 0 => g = NINF
                     [] OTHER ->
                          /\ result.value[i].prev = Num(PrevSum(i))
                          /\ RoundedPct(g, CurSum(i) - PrevSum(i), PrevSum(i))

\* C10's case: a table with a first period of sum 0, a period of sum 300
\* after it, and a period of sum -100 after that, whose growth needs rounding.
C10_Witness ==
    /\ GrowthCall
    /\ Len(result.value) = 3
    /\ PrevSum(2) = 0 /\ CurSum(2) = 300 /\ CurSum(3) = -100
    /\ result.value[1].growth = NAN
    /\ result.value[2].growth = PINF
    /\ result.value[3].growth = Num(-13333)

----------------------------------------------------------------------------
(* Claims about the forecast, stated over the rows of the dataset.         *)

HasCols == {"date", "amount"} \subseteq df.columns
MonthsSeen == {df.rows[i]["date"].m : i \in DatedIdx}
FirstMonth == CHOOSE m \in MonthsSeen : \A q \in MonthsSeen : m <= q
LastMonth == CHOOSE m \in MonthsSeen : \A q \in MonthsSeen : m >= q

\* the number of points of the monthly aggregation
MonthlyPoints == IF MonthsSeen = {} THEN 0 ELSE LastMonth - FirstMonth + 1

\* the monthly totals, from the first month with a record to the last
MonthlyTotals ==
    [j \in 1..MonthlyPoints |-> RawSum(RecordsIn("M", FirstMonth + j - 1))]

\* predict_future_sales was called, directly or by the page
PredictCalled ==
    \/ pc = "analysed" /\ call.fn = "predict"
    \/ pc = "rendered" /\ call.fn = "page_prediction" /\ call.months_ahead > 0

\* C7: no predicted amount of a forecast is negative.
C7_ForecastFloor ==
    (PredictCalled /\ ~result.none) =>
        \A i \in 1..Len(result.value.predictions) :
            /\ result.value.predictions[i].predicted_sales.d > 0
            /\ result.value.predictions[i].predicted_sales.n >= 0

\* C7's case: monthly totals that fall from 300 to 100, so that the trend
\* line is below zero from the first month ahead on and the forecast is 0.
C7_Witness ==
    /\ PredictCalled /\ ~result.none
    /\ MonthlyTotals = <<300, 100>>
    /\ result.value.trend_slope.n < 0
    /\ call.months_ahead = 2
    /\ \A i \in 1..2 : result.value.predictions[i].predicted_sales.n = 0

Dot(xs, ys) == sum_to([j \in 1..Len(xs) |-> xs[j] * ys[j]], Len(xs))

\* the fraction b is the least-squares slope of ys against 0, 1, ...: the
\* residuals of the line of slope b through the mean point are orthogonal
\* to the month index (with the intercept (sy - b * sx) / n)
IsLeastSquaresSlope(b, ys) ==
    LET n == Len(ys)
        x == [j \in 1..n |-> j - 1]
        ones == [j \in 1..n |-> 1]
        residual == [j \in 1..n |->
                        n * b.d * ys[j] - (b.d * Dot(ones, ys) - b.n * Dot(ones, x))
                        - n * b.n * x[j]]
    IN  /\ b.d > 0
        /\ Dot(ones, residual) = 0
        /\ Dot(x, residual) = 0

C9_WitnessExample ==
    /\ PredictCalled /\ ~result.none
    /\ MonthlyTotals = <<100, 200, 300>>
    /\ result.value.predictions[1].predicted_sales.n = 400 * result.value.predictions[1].predicted_sales.d

----------------------------------------------------------------------------
(* Claims about the rolling-window growth, stated over the rows of the     *)
(* dataset, with dates counted in days.                                    *)

DaysPerMonth == Cardinality(WindowDays)
AbsDay(t) == t.m * DaysPerMonth + t.d

WindowCall ==
    pc = "analysed" /\ call.fn \in {"top_growing", "brand_growth"} /\ ~result.none
WindowKeyCol == IF call.fn = "top_growing" THEN "client" ELSE "brand"

WindowDated == {i \in 1..Len(df.rows) : df.rows[i]["date"].k = "ts"}
\* the day of the latest date L of the dataset
LatestDay ==
    CHOOSE x \in {AbsDay(df.rows[i]["date"]) : i \in WindowDated} :
        \A i \in WindowDated : AbsDay(df.rows[i]["date"]) <= x

\* the records of the recent window, date >= L - W months, and of the prior
\* window, L - 2W months <= date < L - W months
RecentIdx ==
    {i \in WindowDated :
        AbsDay(df.rows[i]["date"]) >= LatestDay - call.months * DaysPerMonth}
PriorIdx ==
    {i \in WindowDated :
        /\ AbsDay(df.rows[i]["date"]) >= LatestDay - 2 * call.months * DaysPerMonth
        /\ AbsDay(df.rows[i]["date"]) < LatestDay - call.months * DaysPerMonth}
OfKey(I, key) == {i \in I : df.rows[i][WindowKeyCol] = key}

\* C11: every row returned sums into its recent column exactly the records
\* of its entity dated at or after L - W months and into its prior column
\* exactly those dated from L - 2W months on and before L - W months; an
\* entity has a row only if it has a record in one of the windows, and the
\* full table has a row for every such entity; no record is in both windows.
C11_WindowMembership ==
    WindowCall =>
        /\ RecentIdx \cap PriorIdx = {}
        /\ \A i \in 1..Len(result.value) :
              LET r == result.value[i]
              IN  /\ OfKey(RecentIdx \cup PriorIdx, r.key) # {}
                  /\ OfKey(RecentIdx, r.key) # {} =>
                         r.recent = Num(RawSum(OfKey(RecentIdx, r.key)))
                  /\ OfKey(PriorIdx, r.key) # {} =>
                         r.prev = Num(RawSum(OfKey(PriorIdx, r.key)))
                  /\ OfKey(RecentIdx, r.key) = {} => r.recent.k # "num" \/ r.recent.v = 0
                  /\ OfKey(PriorIdx, r.key) = {} => r.prev.k # "num" \/ r.prev.v = 0
        /\ (call.fn = "brand_growth" \/ call.top_n >= 2) =>
              {result.value[i].key : i \in 1..Len(result.value)} =
                  {df.rows[i][WindowKeyCol] : i \in RecentIdx \cup PriorIdx}

\* C11's case: one entity with a record on the latest day, one on the first
\* day of the recent window and one on the day before it; the table has 100
\* in the prior window and 200 in the recent one.
C11_Witness ==
    /\ WindowCall /\ call.months = 6
    /\ Len(df.rows) = 3
    /\ Cardinality(RecentIdx) = 2 /\ Cardinality(PriorIdx) = 1
    /\ \E i \in PriorIdx : AbsDay(df.rows[i]["date"]) = LatestDay - 6 * DaysPerMonth - 1
    /\ \E i \in RecentIdx : AbsDay(df.rows[i]["date"]) = LatestDay - 6 * DaysPerMonth
    /\ Len(result.value) = 1
    /\ result.value[1].recent = Num(200)
    /\ result.value[1].prev = Num(100)

\* C11's case of a record older than both windows, which is in no sum.
C11_WitnessOlder ==
    /\ WindowCall /\ call.months = 6
    /\ Len(df.rows) = 3
    /\ Cardinality(RecentIdx) = 1 /\ Cardinality(PriorIdx) = 1
    /\ Cardinality(WindowDated) = 3
    /\ Len(result.value) = 1
    /\ result.value[1].recent = Num(100)
    /\ result.value[1].prev = Num(100)

\* C12 as stated: an entity with no record in a window has sum 0 for that
\* window; with no record in the prior window its growth is undefined or
\* infinite, with none in the recent window its growth is -100%.
C12_AbsentCountsAsZero ==
    WindowCall =>
        \A i \in 1..Len(result.value) :
            LET r == result.value[i]
            IN  /\ OfKey(PriorIdx, r.key) = {} =>
                       r.prev = Num(0) /\ r.growth.k \in {"nan", "inf", "ninf"}
                /\ OfKey(RecentIdx, r.key) = {} =>
                       r.recent = Num(0) /\ r.growth = Num(-10000)

----------------------------------------------------------------------------
(* Claims about the brand dictionary, stated over the rows of the brand    *)
(* table.                                                                  *)

BrandListCall == pc = "loaded_brands" /\ call.fn = "load_brand_list"
BrandListReturned == BrandListCall /\ ~result.none

\* the text of a cell without the blanks around it, nothing for a null cell
Trimmed(cell) == IF cell = NaN THEN <<>> ELSE strip(cell)

\* the rows with a first column that is not blank, and their position
UsableRows == {i \in 1..Len(brand_df.rows) : Trimmed(brand_df.rows[i][1]) # <<>>}

\* the list the claim builds from row i, before duplicates are removed
RawAliases(i) ==
    LET row == brand_df.rows[i]
        n == Len(brand_df.columns)
        tokens == IF n >= 3 /\ row[3] # NaN THEN split(row[3], ",") ELSE <<>>
        trimmed == [j \in 1..Len(tokens) |-> Trimmed(tokens[j])]
    IN  <<Trimmed(row[1])>>
        \o (IF n >= 2 /\ Trimmed(row[2]) # <<>> THEN <<Trimmed(row[2])>> ELSE <<>>)
        \o SelectSeq(trimmed, LAMBDA t : t # <<>>)

FirstAt(xs, x) == CHOOSE j \in 1..Len(xs) : xs[j] = x /\ \A h \in 1..(j - 1) : xs[h] # x

\* l is raw with the later duplicates removed and the order of the first
\* occurrences kept
IsDedupOf(l, raw) ==
    /\ {l[j] : j \in 1..Len(l)} = {raw[j] : j \in 1..Len(raw)}
    /\ \A j, h \in 1..Len(l) : j < h => l[j] # l[h] /\ FirstAt(raw, l[j]) < FirstAt(raw, l[h])

\* C13: in every mapping load_brand_list returns, each key is an element of
\* its own alias list.
C13_KeyInOwnAliases ==
    BrandListReturned =>
        \A i \in 1..Len(result.value) :
            \E j \in 1..Len(result.value[i].variants) :
                result.value[i].variants[j] = result.value[i].brand

\* C13's case: a row of three columns whose third column names the key
\* again; the key is the first of the three aliases kept.
C13_Witness ==
    /\ BrandListReturned
    /\ Len(brand_df.columns) = 3
    /\ \E i \in 1..Len(result.value) :
          /\ result.value[i].brand = <<"K">>
          /\ result.value[i].variants = <<<<"K">>, <<"e">>, <<"s">>>>

\* C14 as stated: for a table of 2 or more columns, every row with a first
\* column that is not blank has its trimmed first column mapped to the list
\* built from that row.
C14_EveryRowMapped ==
    (BrandListReturned /\ Len(brand_df.columns) >= 2) =>
        \A i \in UsableRows :
            \E e \in 1..Len(result.value) :
                /\ result.value[e].brand = Trimmed(brand_df.rows[i][1])
                /\ IsDedupOf(result.value[e].variants, RawAliases(i))

\* C14 as amended: for a table of 2 or more columns, the mapping has one key
\* for every distinct trimmed first column that is not blank, in the order of
\* their first rows, and maps it to the list built from the last row with
\* that first column.
C14_LastRowMapped ==
    (BrandListReturned /\ Len(brand_df.columns) >= 2) =>
        /\ {result.value[e].brand : e \in 1..Len(result.value)} =
               {Trimmed(brand_df.rows[i][1]) : i \in UsableRows}
        /\ \A e, f \in 1..Len(result.value) :
              e < f =>
                  /\ result.value[e].brand # result.value[f].brand
                  /\ \E i \in UsableRows :
                        /\ Trimmed(brand_df.rows[i][1]) = result.value[e].brand
                        /\ \A h \in UsableRows :
                              Trimmed(brand_df.rows[h][1]) = result.value[f].brand => i < h
        /\ \A i \in UsableRows :
              (\A h \in UsableRows :
                   Trimmed(brand_df.rows[h][1]) = Trimmed(brand_df.rows[i][1]) => h <= i)
              => \E e \in 1..Len(result.value) :
                    /\ result.value[e].brand = Trimmed(brand_df.rows[i][1])
                    /\ IsDedupOf(result.value[e].variants, RawAliases(i))

\* C14's case: two rows with the same first column and different aliases;
\* the key is mapped to the list of the second row.
C14_Witness ==
    /\ BrandListReturned /\ Len(brand_df.columns) = 3
    /\ Len(brand_df.rows) = 2
    /\ Cardinality(UsableRows) = 2
    /\ Len(result.value) = 1
    /\ RawAliases(1) = <<<<"K">>>>
    /\ result.value[1].variants = <<<<"K">>, <<"e">>, <<"s">>>>

\* C15 as stated: load_brand_list does not raise, no key of the mapping is
\* blank, the keys are those of the rows with a first column that is not
\* blank, and a table without such a row gives the empty mapping.
C15_SoftFailure ==
    BrandListCall =>
        /\ ~result.none
        /\ \A e \in 1..Len(result.value) : result.value[e].brand # <<>>
        /\ {result.value[e].brand : e \in 1..Len(result.value)} =
               {Trimmed(brand_df.rows[i][1]) : i \in UsableRows}
        /\ UsableRows = {} => result.value = <<>>

----------------------------------------------------------------------------
(* Claims about Dataset Preparation.                                       *)

\* C16: the preparation applied to its own result changes no column name,
\* no cell and no row.
C16_PreparationIdempotent ==
    pc = "prepared_again" => df = result.value

\* C16's case: the table prepared twice has the client-name column and one
\* row left, with a parsed date, an amount coerced to null and no client.
C16_Witness ==
    /\ pc = "prepared_again"
    /\ df.columns = {"client", "date", "amount"}
    /\ Len(df.rows) = 1
    /\ df.rows[1]["date"] = DayTs(2, 1)
    /\ df.rows[1]["amount"] = NAN
    /\ df.rows[1]["client"] = NAN

----------------------------------------------------------------------------
(* Claims about File Loading.                                              *)

MergeCalled == pc = "merged" /\ call.fn = "merge_sales_data"

\* the positions in the upload of the files that loaded
LoadedIdx == {i \in 1..Len(call.sales_files) : call.sales_files[i].content # Unreadable}

\* the number of rows of the loaded files before the i-th file
RECURSIVE RowsBefore(_)
RowsBefore(i) ==
    IF i <= 1 THEN 0
    ELSE RowsBefore(i - 1)
         + (IF (i - 1) \in LoadedIdx THEN Len(call.sales_files[i - 1].content.rows) ELSE 0)

\* C19: merge_sales_data never raises; it returns the no-data result exactly
\* when no file loaded; otherwise its columns are those of the loaded
\* tables united by name and its rows are the rows of the loaded tables in
\* upload order, a cell of a column the row's table does not have being
\* null.
C19_UnreadableFilesSkipped ==
    MergeCalled =>
        /\ ~("error" \in DOMAIN result)
        /\ result.none <=> LoadedIdx = {}
        /\ ~result.none =>
              /\ result.value.columns = UNION {call.sales_files[i].content.columns : i \in LoadedIdx}
              /\ Len(result.value.rows) = RowsBefore(Len(call.sales_files) + 1)
              /\ \A i \in LoadedIdx :
                    LET t == call.sales_files[i].content
                    IN  \A j \in 1..Len(t.rows) : \A c \in result.value.columns :
                          result.value.rows[RowsBefore(i) + j][c] =
                              IF c \in t.columns THEN t.rows[j][c]
                              ELSE IF c = "product" THEN NaN ELSE NAN

\* C19's case: an unreadable file between two tables with different
\* columns; the merge has the rows of both, in upload order.
C19_Witness ==
    /\ MergeCalled
    /\ Len(call.sales_files) = 3
    /\ LoadedIdx = {1, 3}
    /\ call.sales_files[1].content.columns = {"amount"}
    /\ call.sales_files[3].content.columns = {"product"}
    /\ ~result.none
    /\ Len(result.value.rows) = 3
    /\ result.value.rows[3] = [product |-> <<"a">>, amount |-> NAN]

----------------------------------------------------------------------------
(* Claims about the upload pages.                                          *)

\* the interaction that led here failed
UploadFailed == page \in {"no_sales_loaded", "brand_load_failed"}

\* C17: an upload interaction that fails leaves the stored dataset, the
\* stored brand table and the stored brand mapping exactly as they were.
C17_FailureLeavesSessionIntact ==
    [][UploadFailed' =>
          /\ df' = df
          /\ brand_df' = brand_df
          /\ brand_mapping' = brand_mapping]_vars

----------------------------------------------------------------------------
(* Claims about the analyses as a whole.                                   *)

\* C18: no call of an analysis function, whatever came before it and
\* whatever its parameters, changes the dataset held in the session: its
\* rows, its columns and its cells, with their types, stay as they were.
C18_DatasetUnchanged == [][df' = df]_vars

\* C18's case: a function that converts the date column was called on a
\* dataset whose dates are texts; it read the text as a date of February,
\* and the session's cell still holds the text.
C18_Witness ==
    /\ pc = "analysed"
    /\ call.fn = "analyze_sales_by_period"
    /\ call.date_col = "date"
    /\ call.period = "M"
    /\ Len(df.rows) = 2
    /\ df.rows[1]["date"] = Text("2024-02")
    /\ df.rows[2]["date"] = Text("2024-01")
    /\ ~result.none
    /\ Len(result.value) = 2
    /\ result.value[2].period = 2

----------------------------------------------------------------------------
(* Claims about the shape of the by-client ranking.                        *)

ByClient == pc = "analysed" /\ call.fn = "client" /\ ~result.none

\* the keys of the rows returned
Kept == {result.value[i].key : i \in 1..Len(result.value)}

\* the sum of the shares of the rows 1..i of the result, added one by one
RECURSIVE RunningShare(_)
RunningShare(i) ==
    IF i = 0 THEN Num(0) ELSE f_add(RunningShare(i - 1), result.value[i].share)

\* C21: analyze_sales_by_client returns at most top_n rows, one per client,
\* in non-increasing order of total; a client left out has a total no
\* greater than any client kept, and is left out only when top_n rows are
\* returned; each row's sum and count are those of the client's amounts,
\* each row's cumulative share is the running sum of the shares down to it;
\* sums of 300 and 50 give shares of 85.71 and 14.29.
C21_RankingShape ==
    /\ pct(Num(300), Num(350)) = Num(8571)
    /\ pct(Num(50), Num(350)) = Num(1429)
    /\ ByClient =>
          LET r == result.value
          IN  /\ Len(r) <= call.top_n
              /\ Kept \subseteq Entities
              /\ Cardinality(Kept) = Len(r)
              /\ Kept # Entities => Len(r) = call.top_n
              /\ \A i \in 1..Len(r) : \A j \in 1..Len(r) :
                    i < j => r[i].total.v >= r[j].total.v
              /\ \A e \in Entities \ Kept : \A i \in 1..Len(r) :
                    RawSum(RowsOf(e)) <= r[i].total.v
              /\ \A i \in 1..Len(r) :
                    /\ r[i].total = Num(RawSum(RowsOf(r[i].key)))
                    /\ r[i].count = Cardinality({k \in RowsOf(r[i].key) :
                                                    df.rows[k]["amount"].k = "num"})
                    /\ r[i].cum = RunningShare(i)

\* C21's case: three clients and top_n = 2; the two with the larger totals
\* are returned with shares of 50 and cumulative shares of 50 and 100, the
\* client with the smaller total is left out.
C21_Witness ==
    /\ ByClient
    /\ call.top_n = 2
    /\ Cardinality(Entities) = 3
    /\ Len(result.value) = 2
    /\ result.value[1].total = Num(100)
    /\ result.value[2].total = Num(100)
    /\ \E e \in Entities \ Kept : RawSum(RowsOf(e)) = 0
    /\ result.value[1].cum = Num(5000)
    /\ result.value[2].cum = Num(10000)

----------------------------------------------------------------------------
(* Claims about the trailing means of the forecast.                        *)

\* the sum of the monthly totals from the j-th month on
RECURSIVE TotalsFrom(_)
TotalsFrom(j) ==
    IF j > MonthlyPoints THEN 0 ELSE MonthlyTotals[j] + TotalsFrom(j + 1)

\* the mean of the last k monthly totals, or of all when there are fewer
TrailingMean(k) ==
    LET from == IF MonthlyPoints > k THEN MonthlyPoints - k + 1 ELSE 1
    IN  [k |-> "quot", n |-> TotalsFrom(from), d |-> MonthlyPoints - from + 1]

\* C22: for every history of at least one month, a single month included,
\* predict_future_sales reports the means of the last 3, 6 and 12 monthly
\* totals, taken over the months there are.
C22_TrailingMeansReported ==
    (PredictCalled /\ HasCols /\ MonthlyPoints >= 1) =>
        /\ ~result.none
        /\ result.value.avg_3m = TrailingMean(3)
        /\ result.value.avg_6m = TrailingMean(6)
        /\ result.value.avg_12m = TrailingMean(12)

----------------------------------------------------------------------------
(* Claims about the order of the rolling-window tables.                    *)

\* the entities with a record in one of the two windows
WindowEntities == {df.rows[i][WindowKeyCol] : i \in RecentIdx \cup PriorIdx}
WindowKept == {result.value[i].key : i \in 1..Len(result.value)}

\* the growth of an entity from its records: undefined without a record in
\* both windows
GrowthOf(key) ==
    IF OfKey(RecentIdx, key) = {} \/ OfKey(PriorIdx, key) = {} THEN NAN
    ELSE pct(Num(RawSum(OfKey(RecentIdx, key)) - RawSum(OfKey(PriorIdx, key))),
             Num(RawSum(OfKey(PriorIdx, key))))

\* growth x does not come after growth y in descending order, undefined last
NotBelow(x, y) ==
    \/ y.k = "nan"
    \/ /\ x.k # "nan"
       /\ \/ x.k = "inf"
          \/ y.k = "ninf"
          \/ x.k = "num" /\ y.k = "num" /\ x.v >= y.v

\* the rows are in non-increasing order of growth, undefined growths last
GrowthOrdered ==
    \A i \in 1..Len(result.value) : \A j \in 1..Len(result.value) :
        i < j => NotBelow(result.value[i].growth, result.value[j].growth)

\* C23 as stated: both functions list the entities in non-increasing order
\* of growth, undefined growths last, and return every entity of either
\* window.
C23_OrderedAndUntruncated ==
    WindowCall =>
        /\ GrowthOrdered
        /\ Len(result.value) = Cardinality(WindowEntities)
        /\ WindowKept = WindowEntities

\* C23 as amended: both functions list entities in non-increasing order of
\* growth, undefined growths last; compare_brand_growth returns every entity
\* of either window, get_top_growing_clients the first top_n of them in that
\* order.
C23_OrderedTopN ==
    WindowCall =>
        /\ GrowthOrdered
        /\ \A i \in 1..Len(result.value) :
              result.value[i].growth = GrowthOf(result.value[i].key)
        /\ Cardinality(WindowKept) = Len(result.value)
        /\ WindowKept \subseteq WindowEntities
        /\ call.fn = "brand_growth" => WindowKept = WindowEntities
        /\ call.fn = "top_growing" =>
              /\ Len(result.value) <= call.top_n
              /\ WindowKept # WindowEntities => Len(result.value) = call.top_n
              /\ \A e \in WindowEntities \ WindowKept : \A i \in 1..Len(result.value) :
                    NotBelow(result.value[i].growth, GrowthOf(e))

\* C23's case: two clients with records in both windows, one unchanged and
\* one fallen to nothing, and top_n = 1; the unchanged one is returned alone.
C23_Witness ==
    /\ WindowCall /\ call.fn = "top_growing" /\ call.top_n = 1
    /\ Cardinality(WindowEntities) = 2
    /\ \A e \in WindowEntities : GrowthOf(e).k = "num"
    /\ Len(result.value) = 1
    /\ result.value[1].growth = Num(0)
    /\ \E e \in WindowEntities \ WindowKept : GrowthOf(e) = Num(-10000)

\* C23's case for the brands: both brands returned, the one with a defined
\* growth before the one without.
C23_WitnessBrands ==
    /\ WindowCall /\ call.fn = "brand_growth" /\ call.months = 6
    /\ Len(result.value) = 2
    /\ result.value[1].growth = Num(0)
    /\ result.value[2].growth.k = "nan"

----------------------------------------------------------------------------
(* page_ai_query: a question put to the configured provider, Gemini first  *)
(* and OpenAI after it.  The handler is followed step by step: call holds  *)
(* its locals, result is response_text, page is the list of messages it    *)
(* has shown, df is the session key 'merged_sales_df'.                     *)

\* what st.secrets.get returns: no secret, an empty one, a key
SecretValues == {None, Some(""), Some("key")}

\* app.py 717, 739, 814: a key counts when it is truthy
configured(key) == ~key.none /\ key.value # ""

\* what a provider call ends with: a text, an empty text, an exception
ProviderOutcomes == {Some("answer"), Some(""), Raised("api_error")}

raised(outcome) == "error" \in DOMAIN outcome

\* app.py 819, 836: response_text is truthy
has_text(response_text) == ~response_text.none /\ response_text.value # ""

QueryTables ==
    {[columns |-> {"amount"}, rows |-> << [amount |-> Num(300)] >>],
     [columns |-> {"product"}, rows |-> << [product |-> <<"K">>] >>]}

provider_kept_after_error(openai_key, llm_provider) == llm_provider

\* app.py 811-816: after a Gemini error the provider becomes OpenAI when
\* its key is configured
provider_after_gemini_error(openai_key, llm_provider) ==
    IF configured(openai_key) THEN "openai" ELSE llm_provider

InitQuery ==
    /\ pc = "page_ai_query"
    /\ \E gemini_key \in SecretValues, openai_key \in SecretValues :
          call = [fn |-> "page_ai_query", gemini_key |-> gemini_key,
                  openai_key |-> openai_key, question |-> "",
                  llm_provider |-> "none", requests |-> <<>>]
    /\ df \in {None} \cup {Some(t) : t \in QueryTables}
    /\ result = None
    /\ page = <<>>
    /\ brand_df = None
    /\ brand_mapping = None
    /\ product_name = NaN
    /\ brand = "none"

\* app.py 698-788, 846-847: the page run with the button pressed
Submit ==
    /\ pc \in {"page_ai_query", "answered"}
    /\ \E question \in {"", "q"} :
          IF ~configured(call.gemini_key) /\ ~configured(call.openai_key)
          THEN /\ page' = <<"warning_no_api_key">>
               /\ pc' = "page_ai_query"
               /\ call' = [call EXCEPT !.question = "", !.llm_provider = "none",
                                       !.requests = <<>>]
          ELSE LET llm_provider == IF configured(call.gemini_key)
                                   THEN "gemini" ELSE "openai"
               IN  IF df.none
                   THEN /\ page' = <<"warning_no_data">>
                        /\ pc' = "page_ai_query"
                        /\ call' = [call EXCEPT !.question = "",
                                                !.llm_provider = llm_provider,
                                                !.requests = <<>>]
                   ELSE IF question = ""
                   THEN /\ page' = <<"warning_no_question">>
                        /\ pc' = "page_ai_query"
                        /\ call' = [call EXCEPT !.question = "",
                                                !.llm_provider = llm_provider,
                                                !.requests = <<>>]
                   ELSE /\ page' = <<>>
                        /\ pc' = IF llm_provider = "gemini" THEN "gemini" ELSE "openai"
                        /\ call' = [call EXCEPT !.question = question,
                                                !.llm_provider = llm_provider,
                                                !.requests = <<>>]
    /\ result' = None
    /\ UNCHANGED <<df, brand_df, brand_mapping, product_name, brand>>

\* app.py 791-819: the Gemini request and its except clause
AskGemini ==
    /\ pc = "gemini"
    /\ \E outcome \in ProviderOutcomes :
          LET provider == IF raised(outcome)
                          THEN provider_after_gemini_error(call.openai_key,
                                                           call.llm_provider)
                          ELSE call.llm_provider
              response_text == IF raised(outcome) THEN None ELSE outcome
          IN  /\ call' = [call EXCEPT !.llm_provider = provider,
                                      !.requests = Append(@, "gemini")]
              /\ result' = response_text
              /\ page' = IF raised(outcome)
                         THEN IF configured(call.openai_key)
                              THEN page \o <<"warning_gemini_error", "info_switch_to_openai">>
                              ELSE Append(page, "warning_gemini_error")
                         ELSE page
              /\ pc' = IF provider = "openai" /\ ~has_text(response_text)
                       THEN "openai" ELSE "show"
    /\ UNCHANGED <<df, brand_df, brand_mapping, product_name, brand>>

\* app.py 819-833: the OpenAI request and its except clause
AskOpenAI ==
    /\ pc = "openai"
    /\ \E outcome \in ProviderOutcomes :
          /\ call' = [call EXCEPT !.requests = Append(@, "openai")]
          /\ result' = IF raised(outcome) THEN result ELSE outcome
          /\ page' = IF raised(outcome) THEN Append(page, "error_openai_error")
                     ELSE page
    /\ pc' = "show"
    /\ UNCHANGED <<df, brand_df, brand_mapping, product_name, brand>>

\* app.py 835-841: the answer, or the failure message
ShowAnswer ==
    /\ pc = "show"
    /\ page' = IF has_text(result) THEN Append(page, "answer")
               ELSE Append(page, "error_no_answer")
    /\ pc' = "answered"
    /\ UNCHANGED <<df, call, result, brand_df, brand_mapping, product_name, brand>>

NextQuery == Submit \/ AskGemini \/ AskOpenAI \/ ShowAnswer

\* the handler, once started, runs to its end
SpecQuery ==
    InitQuery /\ [][NextQuery]_vars /\ WF_vars(AskGemini \/ AskOpenAI \/ ShowAnswer)

----------------------------------------------------------------------------
(* Claims about the question page                                          *)

Shown(message) == \E i \in 1..Len(page) : page[i] = message

Requests(provider) ==
    Cardinality({i \in 1..Len(call.requests) : call.requests[i] = provider})

QueryEnded ==
    pc = "answered" =>
       /\ Requests("gemini") <= 1 /\ Requests("openai") <= 1
       /\ (Shown("warning_gemini_error") /\ configured(call.openai_key))
             => call.requests = <<"gemini", "openai">>
       /\ \/ page[Len(page)] = "answer" /\ has_text(result)
          \/ page[Len(page)] = "error_no_answer" /\ ~has_text(result)

\* C24: a submitted question ends with an answer or an error message shown;
\* after a Gemini error OpenAI, when configured, is asked exactly once; no
\* provider is asked twice; the session dataset stays as it was
C24_ProviderFallback ==
    /\ [](QueryEnded)
    /\ [][df' = df]_vars
    /\ (pc \in {"gemini", "openai", "show"}) ~> (pc = "answered")

C24_Witness ==
    /\ pc = "answered"
    /\ call.requests = <<"gemini", "openai">>
    /\ Shown("warning_gemini_error")
    /\ page[Len(page)] = "answer"
    /\ ~df.none

----------------------------------------------------------------------------
(* The classifier on descriptions and aliases written with letters whose   *)
(* upper case and whose case-insensitive regular-expression form differ.   *)

MaxFoldLen == 3

FoldAlphabet == {"i", "I", "Idot", " "}
FoldAliasPool == {<<"I">>, <<"i", "i">>, <<"Idot">>}

RECURSIVE FoldStrings(_)
FoldStrings(n) ==
    IF n = 0 THEN {<<>>}
    ELSE LET shorter == FoldStrings(n - 1)
         IN  shorter \cup {Append(s, c) : s \in {t \in shorter : Len(t) = n - 1},
                                          c \in FoldAlphabet}

\* no brand, one brand of one or two aliases, two brands of one alias each
FoldMappings ==
    {<<>>}
    \cup {<<[brand |-> "X", variants |-> <<v>>]>> : v \in FoldAliasPool}
    \cup {<<[brand |-> "X", variants |-> <<vw[1], vw[2]>>]>> :
             vw \in {p \in FoldAliasPool \X FoldAliasPool : p[1] # p[2]}}
    \cup {<<[brand |-> "X", variants |-> <<v>>], [brand |-> "Y", variants |-> <<w>>]>> :
             v \in FoldAliasPool, w \in FoldAliasPool}

InitCaseFold ==
    /\ pc = "classify"
    /\ product_name \in FoldStrings(MaxFoldLen) \cup {NaN}
    /\ brand_mapping = <<>>
    /\ brand = "none"
    /\ brand_df = NoData
    /\ df = NoData
    /\ call = NoCall
    /\ result = None
    /\ page = "none"

\* one call extract_brand_from_product(product_name, mapping)
ExtractBrandCaseFold ==
    /\ pc = "classify"
    /\ \E mapping \in FoldMappings :
          /\ brand_mapping' = mapping
          /\ brand' = extract_brand_from_product(product_name, mapping)
    /\ pc' = "classified"
    /\ UNCHANGED <<product_name, df, call, result, page, brand_df>>

NextCaseFold == ExtractBrandCaseFold

SpecCaseFold == InitCaseFold /\ [][NextCaseFold]_vars

----------------------------------------------------------------------------
(* Claims about the word-boundary test of the scan                         *)

\* the scan with the word-boundary test of lines 56-62 taken out
scan_brand_substring_only(name, mapping) ==
    LET pairs == sorted_variants(mapping)
        hits == {i \in 1..Len(pairs) :
                    contains(upper(name), upper(pairs[i].variant))}
    IN  IF hits = {} THEN GITA
        ELSE pairs[CHOOSE i \in hits : \A j \in hits : i <= j].main_brand

extract_brand_substring_only(name, mapping) ==
    IF name = NaN THEN GITA
    ELSE LET stripped == strip(name)
             first == bracket_brand(stripped, mapping)
         IN  IF first # NoBrand THEN first
             ELSE scan_brand_substring_only(stripped, mapping)

CharsOf(s) == {s[i] : i \in 1..Len(s)}

InputChars ==
    (IF product_name = NaN THEN {} ELSE CharsOf(product_name))
    \cup UNION {CharsOf(brand_mapping[i].variants[j]) :
                   <<i, j>> \in {p \in (1..Len(brand_mapping)) \X (1..2) :
                                    p[2] <= Len(brand_mapping[p[1]].variants)}}

\* two characters the pattern takes as equal have the same upper case
UpperFollowsFold ==
    \A c \in InputChars, d \in InputChars :
        fold_char(c) = fold_char(d) => upper_char(c) = upper_char(d)

WordBoundaryHit ==
    /\ product_name # NaN
    /\ \E i \in 1..Len(brand_mapping) :
          \E j \in 1..Len(brand_mapping[i].variants) :
             word_search(brand_mapping[i].variants[j], strip(product_name))

\* C25 as stated: the brand returned is the brand the algorithm returns with
\* the word-boundary test taken out, for every description and mapping
C25_WordBoundaryNeverDecides ==
    pc = "classified" =>
        brand = extract_brand_substring_only(product_name, brand_mapping)

\* C25: the same, for descriptions and aliases in which characters equal
\* under the case-insensitive pattern have equal upper-case forms
C25_WordBoundaryDeadWhenCasesAgree ==
    (pc = "classified" /\ UpperFollowsFold) =>
        brand = extract_brand_substring_only(product_name, brand_mapping)

C25_Witness ==
    /\ pc = "classified"
    /\ UpperFollowsFold
    /\ WordBoundaryHit
    /\ product_name = <<"i", " ", "I">>
    /\ brand = "X"

----------------------------------------------------------------------------
(* Column resolution: the upload page prepares and stores the dataset and  *)
(* shows its summary; each analysis page then picks its date and amount    *)
(* column from its own list of names, the first name present winning.      *)

MaxColumns == 2

\* app.py 310, 484, 620, 1042
page_date_cols == <<"ilja", "nalja", "jeonpyoilja", "panmaeilja", "georaeilja">>
\* app.py 316, 415, 546, 626, 971
page_amount_cols ==
    <<"hapgyegeumaek", "gonggeupgaaek", "geumaek", "maechulgeumaek", "panmaegeumaek",
      "gonggeupga", "panmaega", "danga", "geumaekgonggeupgaaek">>
\* data_loader.py 162
summary_amount_cols == <<"gonggeupgaaek", "geumaek", "hapgyegeumaek", "maechulgeumaek">>

\* for col in cols: if col in df.columns: ...; break -- None when no name is there
first_present(cols, columns) ==
    LET hits == {i \in 1..Len(cols) : cols[i] \in columns}
    IN  IF hits = {} THEN None
        ELSE Some(cols[CHOOSE i \in hits : \A j \in hits : i <= j])

\* the column the summary totals, and the total
get_data_summary(d) ==
    LET col == first_present(summary_amount_cols, d.columns)
    IN  [amount_col |-> col,
         total_amount |-> IF col.none THEN None
                          ELSE Some(series_sum(cells(d, col.value)))]

ColumnNames == {page_amount_cols[i] : i \in 1..Len(page_amount_cols)}
               \cup {page_date_cols[i] : i \in 1..Len(page_date_cols)}

\* one uploaded row, every cell a text
UploadedTables ==
    {[columns |-> cols,
      rows |-> << [c \in cols |-> IF in_list(c, page_date_cols) THEN Text("2024-01")
                                  ELSE Text("100")] >>] :
        cols \in {cs \in SUBSET ColumnNames : Cardinality(cs) <= MaxColumns}}

AnalysisPages == {"page_sales_analysis", "page_client_analysis", "page_product_analysis",
                  "page_prediction", "page_brand_analysis"}

InitColumns ==
    /\ pc = "session"
    /\ df = None
    /\ call = NoCall
    /\ result = None
    /\ page = "none"
    /\ brand_df = None
    /\ brand_mapping = None
    /\ product_name = NaN
    /\ brand = "none"

\* app.py 239-257: the upload prepared, stored and summarised
UploadAndSummarise ==
    /\ \E t \in UploadedTables :
          LET merged_df == clean_and_prepare_data(t)
          IN  /\ df' = Some(merged_df)
              /\ result' = Some(get_data_summary(merged_df))
    /\ call' = [fn |-> "page_data_upload"]
    /\ page' = "page_data_upload"
    /\ UNCHANGED <<pc, brand_df, brand_mapping, product_name, brand>>

\* app.py 308-319 (and 414-417, 545-548, 619-628, 970-973): the columns an
\* analysis page resolves on the stored dataset
ResolveColumns ==
    /\ ~df.none
    /\ \E p \in AnalysisPages :
          /\ page' = p
          /\ call' = [fn |-> p,
                      date_col |-> first_present(page_date_cols, df.value.columns),
                      amount_col |-> first_present(page_amount_cols, df.value.columns)]
    /\ UNCHANGED <<pc, df, result, brand_df, brand_mapping, product_name, brand>>

NextColumns == UploadAndSummarise \/ ResolveColumns

SpecColumns == InitColumns /\ [][NextColumns]_vars

----------------------------------------------------------------------------
(* Claims about column resolution                                          *)

OnAnalysisPage == page \in AnalysisPages

ColumnIsNumeric(col) ==
    \A i \in 1..Len(df.value.rows) : df.value.rows[i][col].k \in {"num", "nan"}

ColumnIsDate(col) ==
    \A i \in 1..Len(df.value.rows) : df.value.rows[i][col].k \in {"ts", "nat"}

\* C26: the amount and the date column an analysis page resolves hold
\* coerced values (numbers, dates), and the page's amount column is the one
\* the upload summary totalled
C26_ResolvedColumnsPrepared ==
    OnAnalysisPage =>
        /\ ~call.amount_col.none => ColumnIsNumeric(call.amount_col.value)
        /\ ~call.date_col.none => ColumnIsDate(call.date_col.value)
        /\ call.amount_col = result.value.amount_col

----------------------------------------------------------------------------
(* Claims about the brand column of the stored dataset                     *)

HasColumn(col) == ~df.none /\ col \in df.value.columns

\* C27: a session that holds a brand mapping and a dataset with a product
\* column holds the dataset with its brand column, whatever the order of
\* the uploads
C27_AnnotatedInAnyOrder ==
    (~brand_mapping.none /\ HasColumn("product")) => HasColumn("brand")

BrandValues == {df.value.rows[i]["brand"] : i \in 1..Len(df.value.rows)}

CanonicalKeys ==
    IF brand_mapping.none THEN {}
    ELSE {brand_name(brand_mapping.value[i].brand) : i \in 1..Len(brand_mapping.value)}

\* what the brand column of an uploaded sales file holds: its own values,
\* and nulls where the files were concatenated
UploadedBrandValues ==
    {t.rows[i]["brand"] : <<t, i>> \in
        {ti \in SessionSalesTables \X (1..2) :
            "brand" \in ti[1].columns /\ ti[2] <= Len(ti[1].rows)}} \cup {"nan"}

\* C28 as stated: every value of the brand column is a key of the stored
\* mapping or the sentinel
C28_BrandColumnRange ==
    (HasColumn("brand") /\ ~brand_mapping.none) =>
        BrandValues \subseteq CanonicalKeys \cup {GITA}

\* C28: a brand column written by a brand-list upload holds keys of the
\* stored mapping or the sentinel; any other value of the column is one the
\* uploaded sales files had in it
C28_BrandColumnRangeOrUploaded ==
    /\ HasColumn("brand") =>
          BrandValues \subseteq CanonicalKeys \cup {GITA} \cup UploadedBrandValues
    /\ page = "brands_matched" => BrandValues \subseteq CanonicalKeys \cup {GITA}

C28_Witness ==
    /\ page = "brands_matched"
    /\ CanonicalKeys = {"K"}
    /\ BrandValues = {"K"}
    /\ brand_df.value.columns = <<"c1", "c2">>

----------------------------------------------------------------------------
(* Claims about the aliases of a loaded brand dictionary                   *)

NoBlankEnds(alias) ==
    /\ alias # <<>>
    /\ ~is_space(alias[1])
    /\ ~is_space(alias[Len(alias)])

\* C29: every alias of every brand of a mapping load_brand_list returns is
\* non-empty and neither begins nor ends with white space
C29_NoEmptyAlias ==
    (pc = "loaded_brands" /\ ~result.none) =>
        \A i \in 1..Len(result.value) :
            \A j \in 1..Len(result.value[i].variants) :
                NoBlankEnds(result.value[i].variants[j])

C29_Witness ==
    /\ pc = "loaded_brands"
    /\ brand_df.rows = << <<<<" ", "K">>, <<"e", " ">>,
                           <<"e", ",", " ", ",", "s", ",", "K">>>>,
                         <<<<"L">>, NaN, <<" ">>>> >>
    /\ result.value = <<[brand |-> <<"K">>, variants |-> <<<<"K">>, <<"e">>, <<"s">>>>],
                        [brand |-> <<"L">>, variants |-> <<<<"L">>>>]>>

----------------------------------------------------------------------------
(* The classifier on mappings in which aliases of one length belong to     *)
(* different brands.                                                       *)

MaxTieLen == 4
MaxTiePairs == 2

TieAlphabet == {"[", "]", "a", "B"}
TieAliasPool == {<<"a">>, <<"b">>, <<"a", "B">>}

RECURSIVE TieStrings(_)
TieStrings(n) ==
    IF n = 0 THEN {<<>>}
    ELSE LET shorter == TieStrings(n - 1)
         IN  shorter \cup {Append(s, c) : s \in {t \in shorter : Len(t) = n - 1},
                                          c \in TieAlphabet}

\* alias lists of k variants, no variant twice
RECURSIVE TieVariantLists(_)
TieVariantLists(k) ==
    IF k = 0 THEN {<<>>}
    ELSE {Append(lv[1], lv[2]) : lv \in
             {p \in TieVariantLists(k - 1) \X TieAliasPool :
                 \A i \in 1..Len(p[1]) : p[1][i] # p[2]}}

\* mappings holding n (variant, brand) pairs in all, the i-th key BrandNames[i]
RECURSIVE TieMappingsFrom(_, _)
TieMappingsFrom(i, n) ==
    IF n = 0 \/ i > Len(BrandNames) THEN {<<>>}
    ELSE {<<>>} \cup
         UNION {{<<[brand |-> BrandNames[i], variants |-> l]>> \o rest :
                    l \in TieVariantLists(k), rest \in TieMappingsFrom(i + 1, n - k)} :
                k \in 1..n}

TieMappings == TieMappingsFrom(1, MaxTiePairs)

InitTies ==
    /\ pc = "classify"
    /\ product_name \in TieStrings(MaxTieLen) \cup {NaN}
    /\ brand_mapping = <<>>
    /\ brand = "none"
    /\ brand_df = NoData
    /\ df = NoData
    /\ call = NoCall
    /\ result = None
    /\ page = "none"

\* one call extract_brand_from_product(product_name, mapping)
ExtractBrandTies ==
    /\ pc = "classify"
    /\ \E mapping \in TieMappings :
          /\ brand_mapping' = mapping
          /\ brand' = extract_brand_from_product(product_name, mapping)
    /\ pc' = "classified"
    /\ UNCHANGED <<product_name, df, call, result, page, brand_df>>

NextTies == ExtractBrandTies

SpecTies == InitTies /\ [][NextTies]_vars

----------------------------------------------------------------------------
(* Claims about ties between brands                                        *)

AliasesOf(i) == {brand_mapping[i].variants[j] : j \in 1..Len(brand_mapping[i].variants)}

\* the brands with an alias equal to the bracketed token
TokenBrands ==
    LET token == bracket_match(strip(product_name))
    IN  IF token = NoMatch THEN {}
        ELSE {i \in 1..Len(brand_mapping) :
                 \E v \in AliasesOf(i) : upper(v) = upper(strip(token))}

MatchingAliases ==
    UNION {{v \in AliasesOf(i) : variant_matches(v, strip(product_name))} :
              i \in 1..Len(brand_mapping)}

\* the brands with a matching alias of the greatest length that matches
LongestMatchBrands ==
    LET matching == MatchingAliases
        longest == {v \in matching : \A w \in matching : Len(w) <= Len(v)}
    IN  {i \in 1..Len(brand_mapping) : AliasesOf(i) \cap longest # {}}

First(indices) == CHOOSE i \in indices : \A j \in indices : i <= j

\* the mappings that differ from the one used in the order of the aliases
\* within a brand only
AliasReorderings ==
    {m \in TieMappings :
        /\ Len(m) = Len(brand_mapping)
        /\ \A i \in 1..Len(m) :
              /\ m[i].brand = brand_mapping[i].brand
              /\ {m[i].variants[j] : j \in 1..Len(m[i].variants)} = AliasesOf(i)}

\* C30: of the brands with an alias equal to the bracketed token the first
\* in the mapping is returned; otherwise, of the brands with a matching
\* alias of the greatest matching length the first in the mapping is
\* returned; the order of the aliases within a brand does not change the
\* brand returned
C30_TiesByMappingOrder ==
    (pc = "classified" /\ product_name # NaN) =>
        LET token_brands == TokenBrands
            longest_match_brands == LongestMatchBrands
        IN  /\ token_brands # {} => brand = brand_mapping[First(token_brands)].brand
            /\ (token_brands = {} /\ longest_match_brands # {}) =>
                  brand = brand_mapping[First(longest_match_brands)].brand
            /\ \A m \in AliasReorderings :
                  extract_brand_from_product(product_name, m) = brand

\* two aliases of one length, of different brands, both in the description
C30_Witness ==
    /\ pc = "classified"
    /\ product_name = <<"B", "a">>
    /\ brand_mapping = <<[brand |-> "X", variants |-> <<<<"a">>>>],
                         [brand |-> "Y", variants |-> <<<<"b">>>>]>>
    /\ TokenBrands = {}
    /\ LongestMatchBrands = {1, 2}
    /\ brand = "X"

====
